---- MODULE Spec2Model ----
(***************************************************************************)
(* Moemon sprite naming pipeline: stage 3 (process-moemon-mapping.js).     *)
(*                                                                         *)
(* Strings are sequences of one-character strings, so that the regular     *)
(* expressions, case conversions and comparisons of the source are         *)
(* computed character by character.                                        *)
(***************************************************************************)
EXTENDS Integers, Sequences, FiniteSets, TLC

(***************************************************************************)
(* Characters and strings                                                  *)
(***************************************************************************)

\* JavaScript null / undefined: a value no string is equal to.
Null == <<"<null>">>

Lowers == <<"a","b","c","d","e","f","g","h","i","j","k","l","m",
            "n","o","p","q","r","s","t","u","v","w","x","y","z">>

Uppers == <<"A","B","C","D","E","F","G","H","I","J","K","L","M",
            "N","O","P","Q","R","S","T","U","V","W","X","Y","Z">>

Digits == <<"0","1","2","3","4","5","6","7","8","9">>

\* Punctuation of the model's alphabet, in the order the root collation
\* (the one String.prototype.localeCompare uses) gives it.
Puncts == <<"_","-","(",")","%",".">>

IndexIn(c, s) == IF \E i \in DOMAIN s : s[i] = c
                 THEN CHOOSE i \in DOMAIN s : s[i] = c
                 ELSE 0

\* The characters of the model's strings
Alphabet == {Lowers[i] : i \in DOMAIN Lowers} \cup {Uppers[i] : i \in DOMAIN Uppers}
            \cup {Digits[i] : i \in DOMAIN Digits} \cup {Puncts[i] : i \in DOMAIN Puncts}

\* Tables over the alphabet: the lower-case and upper-case form of a
\* character, and the value of a digit (-1 for the other characters)
LowerOf == [c \in Alphabet |-> IF IndexIn(c, Uppers) > 0 THEN Lowers[IndexIn(c, Uppers)] ELSE c]

UpperOf == [c \in Alphabet |-> IF IndexIn(c, Lowers) > 0 THEN Uppers[IndexIn(c, Lowers)] ELSE c]

DigitOf == [c \in Alphabet |-> IndexIn(c, Digits) - 1]

IsDigit(c) == DigitOf[c] >= 0

IsUpper(c) == LowerOf[c] # c

toLowerChar(c) == LowerOf[c]

toUpperChar(c) == UpperOf[c]

\* String.prototype.toLowerCase / toUpperCase
toLowerCase(s) == [i \in DOMAIN s |-> toLowerChar(s[i])]

toUpperCase(s) == [i \in DOMAIN s |-> toUpperChar(s[i])]

\* s.substring(n) with a 0-based start, i.e. the string without its first n characters
substring(s, n) == SubSeq(s, n + 1, Len(s))

\* String.prototype.startsWith
startsWith(s, p) == Len(s) >= Len(p) /\ SubSeq(s, 1, Len(p)) = p

\* String.prototype.includes
includes(s, p) == \E i \in 0..(Len(s) - Len(p)) : SubSeq(s, i + 1, i + Len(p)) = p

\* JavaScript truthiness of a string-or-null value: null and "" are falsy
Truthy(s) == s # Null /\ s # <<>>

\* Value of a string of decimal digits (0 for the empty string)
RECURSIVE DigitsValue(_)
DigitsValue(s) == IF s = <<>> THEN 0
                  ELSE 10 * DigitsValue(SubSeq(s, 1, Len(s) - 1)) + DigitOf[s[Len(s)]]

\* NaN, the result of parseInt on a string that does not start with a digit
NaN == -1

\* Length of the run of digits s starts with
RECURSIVE LeadingDigits(_)
LeadingDigits(s) == IF s # <<>> /\ IsDigit(s[1]) THEN 1 + LeadingDigits(Tail(s)) ELSE 0

\* parseInt(s): the decimal value of the leading digits of s
parseInt(s) == IF LeadingDigits(s) = 0 THEN NaN
               ELSE DigitsValue(SubSeq(s, 1, LeadingDigits(s)))

\* Decimal representation of a natural number, as in a template literal `${n}`
RECURSIVE NumToString(_)
NumToString(n) == IF n < 10 THEN <<Digits[n + 1]>>
                  ELSE NumToString(n \div 10) \o <<Digits[(n % 10) + 1]>>

\* Primary collation weight of a character: punctuation, then digits, then
\* letters, upper and lower case of a letter sharing one weight.
PrimaryWeightOf ==
    [c \in Alphabet |-> IF IndexIn(c, Puncts) > 0 THEN IndexIn(c, Puncts)
                        ELSE IF IndexIn(c, Digits) > 0 THEN Len(Puncts) + IndexIn(c, Digits)
                        ELSE Len(Puncts) + Len(Digits) + IndexIn(LowerOf[c], Lowers)]

PrimaryWeight(c) == PrimaryWeightOf[c]

\* Tertiary (case) weight: lower case sorts before upper case
TertiaryWeight(c) == IF IsUpper(c) THEN 1 ELSE 0

\* Lexicographic comparison of two sequences of numbers: -1, 0 or 1
RECURSIVE CompareSeq(_, _)
CompareSeq(a, b) == IF a = <<>> /\ b = <<>> THEN 0
                    ELSE IF a = <<>> THEN -1
                    ELSE IF b = <<>> THEN 1
                    ELSE IF a[1] < b[1] THEN -1
                    ELSE IF a[1] > b[1] THEN 1
                    ELSE CompareSeq(Tail(a), Tail(b))

\* a.localeCompare(b): primary weights of the whole strings first, case as the tie-break
localeCompare(a, b) ==
    LET p == CompareSeq([i \in DOMAIN a |-> PrimaryWeight(a[i])],
                        [i \in DOMAIN b |-> PrimaryWeight(b[i])])
    IN  IF p # 0 THEN p
        ELSE CompareSeq([i \in DOMAIN a |-> TertiaryWeight(a[i])],
                        [i \in DOMAIN b |-> TertiaryWeight(b[i])])

\* undefined where a form record is expected: a record no form is equal to
NoForm == [filename |-> Null]

\* Array.prototype.find over the elements passing a test: the first one, or undefined
FirstOrNull(s) == IF s = <<>> THEN NoForm ELSE s[1]

(***************************************************************************)
(* parseKey                                                                *)
(***************************************************************************)

\* key.match(/^\(([^)]+)\)/): the index of the closing parenthesis, 0 for no match
prefixMatch(key) ==
    IF Len(key) >= 3 /\ key[1] = "(" /\ key[2] # ")" /\ \E j \in 3..Len(key) : key[j] = ")"
    THEN CHOOSE j \in 3..Len(key) : key[j] = ")" /\ \A k \in 2..(j - 1) : key[k] # ")"
    ELSE 0

\* s matches /^-?\d+$/
IsVersionText(s) ==
    LET d == IF s # <<>> /\ s[1] = "-" THEN Tail(s) ELSE s
    IN  d # <<>> /\ \A i \in DOMAIN d : IsDigit(d[i])

\* remainder.match(/^(.*)(-?\d+)$/): the length of group 1, -1 for no match.
\* The first group is greedy: it takes the longest start of the remainder
\* that leaves a match of the second group.
versionMatch(remainder) ==
    LET splits == {i \in 0..Len(remainder) : IsVersionText(substring(remainder, i))}
    IN  IF splits = {} THEN -1
        ELSE CHOOSE i \in splits : \A j \in splits : j <= i

parseKey(key) ==
    LET pm        == prefixMatch(key)
        prefix    == IF pm > 0 THEN SubSeq(key, 2, pm - 1) ELSE Null
        remainder == IF pm > 0 THEN substring(key, pm) ELSE key
        vm        == versionMatch(remainder)
    IN  IF vm < 0
        THEN [prefix |-> prefix, middle |-> remainder, version |-> Null, rawKey |-> key]
        ELSE [prefix |-> prefix, middle |-> SubSeq(remainder, 1, vm),
              version |-> substring(remainder, vm), rawKey |-> key]

(***************************************************************************)
(* getNameSuffix                                                           *)
(***************************************************************************)

\* obj[key] of a JavaScript object: undefined when the key is absent
Lookup(obj, key) == IF key \in DOMAIN obj THEN obj[key] ELSE Null

\* Variant of capitalized: the whole prefix is put in upper case
capitalizedAll(prefix) == <<"-">> \o toUpperCase(prefix)

\* The generic rule: the prefix with its first letter in upper case, after a dash
capitalized(prefix) == <<"-", toUpperChar(prefix[1])>> \o Tail(prefix)

\* The suffix of a prefix "r": the one regional form known for the dexID, or null
regionalSuffix(dexID, pokemonRegionalForms) ==
    IF dexID \in DOMAIN pokemonRegionalForms /\ Len(pokemonRegionalForms[dexID]) = 1
    THEN <<"-">> \o pokemonRegionalForms[dexID][1]
    ELSE Null

\* The rules that do not depend on the dexID: gender, mega, regional, generic
genericSuffix(prefix, dexID, pokemonRegionalForms) ==
    CASE prefix = <<"m","a","s","c">> -> <<"-","M","a","l","e">>
      [] prefix = <<"m">> -> <<"-","M","e","g","a">>
      [] prefix = <<"m","x">> -> <<"-","M","e","g","a","-","X">>
      [] prefix = <<"m","y">> -> <<"-","M","e","g","a","-","Y">>
      [] prefix = <<"f","e","m">> -> Null
      [] prefix = <<"r">> -> regionalSuffix(dexID, pokemonRegionalForms)
      [] prefix = <<"r","a">> -> <<"-","A","l","o","l","a">>
      [] prefix = <<"r","g">> -> <<"-","G","a","l","a","r">>
      [] prefix = <<"r","h">> -> <<"-","H","i","s","u","i">>
      [] prefix = <<"r","p">> -> <<"-","P","a","l","d","e","a">>
      [] prefix = <<"r","s">> -> <<"-","S","e","v","i","i">>
      [] OTHER -> capitalized(prefix)

\* The identifier-specific rules, in the order of the source; null when none applies
specialSuffix(prefix, dexID) ==
    CASE dexID = 201 /\ prefix \in {<<"m">>, <<"r">>} -> <<"-">> \o toUpperCase(prefix)
      [] dexID = 648 /\ prefix = <<"p">> -> <<"-","P","i","r","o","u","e","t","t","e">>
      [] dexID = 386 /\ prefix = <<"a">> -> <<"-","A","t","t","a","c","k">>
      [] dexID = 386 /\ prefix = <<"d">> -> <<"-","D","e","f","e","n","s","e">>
      [] dexID = 386 /\ prefix = <<"s">> -> <<"-","S","p","e","e","d">>
      [] dexID = 492 /\ prefix = <<"s">> -> <<"-","S","k","y">>
      [] dexID = 487 /\ prefix = <<"o">> -> <<"-","O","r","i","g","i","n">>
      [] dexID = 421 /\ prefix = <<"s">> -> <<"-","S","u","n","s","h","i","n","e">>
      [] dexID \in {412, 413} /\ prefix = <<"s","a","n","d","y">> -> <<"-","S","a","n","d","y">>
      [] dexID \in {412, 413} /\ prefix = <<"t","r","a","s","h">> -> <<"-","T","r","a","s","h">>
      [] dexID \in {422, 423} /\ prefix = <<"e">> -> <<"-","E","a","s","t">>
      [] dexID = 550 /\ prefix = <<"b","l","u","e">> -> <<"-","B","l","u","e","-","S","t","r","i","p","e","d">>
      [] dexID = 550 /\ prefix = <<"w","h","i","t","e">> -> <<"-","W","h","i","t","e","-","S","t","r","i","p","e","d">>
      [] dexID \in {585, 586} /\ prefix = <<"s","u","m","m","e","r">> -> <<"-","S","u","m","m","e","r">>
      [] dexID \in {585, 586} /\ prefix = <<"f","a","l","l">> -> <<"-","A","u","t","u","m","n">>
      [] dexID \in {585, 586} /\ prefix = <<"w","i","n","t","e","r">> -> <<"-","W","i","n","t","e","r">>
      [] dexID \in {669, 670, 671} /\ prefix = <<"b">> -> <<"-","B","l","u","e","-","F","l","o","w","e","r">>
      [] dexID \in {669, 670, 671} /\ prefix = <<"o">> -> <<"-","O","r","a","n","g","e","-","F","l","o","w","e","r">>
      [] dexID \in {669, 670, 671} /\ prefix = <<"w">> -> <<"-","W","h","i","t","e","-","F","l","o","w","e","r">>
      [] dexID \in {669, 670, 671} /\ prefix = <<"y">> -> <<"-","Y","e","l","l","o","w","-","F","l","o","w","e","r">>
      [] dexID = 670 /\ prefix = <<"e">> -> <<"-","E","t","e","r","n","a","l">>
      [] dexID = 718 /\ prefix = <<"1","0","_">> -> <<"-","1","0","%">>
      [] dexID = 718 /\ prefix = <<"1","0","0","_">> -> <<"-","C","o","m","p","l","e","t","e">>
      [] dexID = 745 /\ prefix = <<"d","u","s","k">> -> <<"-","D","u","s","k">>
      [] dexID = 745 /\ prefix = <<"n","i","g","h","t">> -> <<"-","M","i","d","n","i","g","h","t">>
      [] dexID = 849 /\ prefix = <<"l","o","w">> -> <<"-","L","o","w","-","K","e","y">>
      [] dexID = 898 /\ prefix = <<"s","r">> -> <<"-","S","h","a","d","o","w">>
      [] dexID = 901 /\ prefix = <<"b","l","o","o","d">> -> <<"-","B","l","o","o","d","m","o","o","n">>
      [] OTHER -> Null

getNameSuffix(parsed, dexID, pokemonRegionalForms) ==
    IF ~Truthy(parsed.prefix) THEN Null
    ELSE LET prefix  == toLowerCase(parsed.prefix)
             special == specialSuffix(prefix, dexID)
         IN  IF special # Null THEN special
             ELSE genericSuffix(prefix, dexID, pokemonRegionalForms)

(***************************************************************************)
(* processDexGroup                                                         *)
(***************************************************************************)

\* Variant of preFilter: "(all)" is looked for in the key as it is written
preFilterExactCase(dexID, forms) ==
    LET notGen6(f) == ~includes(f.key, <<"G","e","n","6">>)
        notAll(f)  == ~includes(f.key, <<"(","a","l","l",")">>)
        kept       == IF dexID = 666 THEN SelectSeq(forms, notGen6) ELSE forms
    IN  SelectSeq(kept, notAll)

\* The pre-filter: group 666 loses the keys that contain "Gen6", every
\* group loses the keys that contain "(all)" in any letter case.
preFilter(dexID, forms) ==
    LET notGen6(f) == ~includes(f.key, <<"G","e","n","6">>)
        notAll(f)  == ~includes(toLowerCase(f.key), <<"(","a","l","l",")">>)
        kept       == IF dexID = 666 THEN SelectSeq(forms, notGen6) ELSE forms
    IN  SelectSeq(kept, notAll)

\* forms.map(form => ({...form, parsed: parseKey(form.key)}))
parseForms(forms) ==
    [i \in DOMAIN forms |->
        [filename |-> forms[i].filename, key |-> forms[i].key,
         dexID |-> forms[i].dexID, parsed |-> parseKey(forms[i].key)]]

\* f.parsed.prefix?.toLowerCase()
lowerPrefix(f) == IF f.parsed.prefix = Null THEN Null ELSE toLowerCase(f.parsed.prefix)

\* middle.toLowerCase().startsWith('base')
startsWithBase(middle) == startsWith(toLowerCase(middle), <<"b","a","s","e">>)

femForms(parsed) ==
    LET isFem(f) == lowerPrefix(f) = <<"f","e","m">>
    IN  SelectSeq(parsed, isFem)

baseForms(parsed) ==
    LET isBase(f) == /\ ~Truthy(f.parsed.prefix)
                     /\ Truthy(f.parsed.middle)
                     /\ startsWithBase(f.parsed.middle)
    IN  SelectSeq(parsed, isBase)

plainForms(parsed) ==
    LET isPlain(f) == /\ ~Truthy(f.parsed.prefix)
                      /\ \/ ~Truthy(f.parsed.middle)
                         \/ /\ f.parsed.middle # <<"-">>
                            /\ f.parsed.middle # <<>>
                            /\ ~startsWithBase(f.parsed.middle)
    IN  SelectSeq(parsed, isPlain)

plainNoMiddleForms(parsed) ==
    LET isPlainNoMiddle(f) == /\ ~Truthy(f.parsed.prefix)
                              /\ \/ ~Truthy(f.parsed.middle)
                                 \/ f.parsed.middle = <<"-">>
                                 \/ f.parsed.middle = <<>>
    IN  SelectSeq(parsed, isPlainNoMiddle)

megaForms(dexID, parsed) ==
    LET isMega(f) == lowerPrefix(f) = <<"m">> /\ dexID # 201
    IN  SelectSeq(parsed, isMega)

megaXForms(parsed) ==
    LET isMegaX(f) == lowerPrefix(f) = <<"m","x">>
    IN  SelectSeq(parsed, isMegaX)

megaYForms(parsed) ==
    LET isMegaY(f) == lowerPrefix(f) = <<"m","y">>
    IN  SelectSeq(parsed, isMegaY)

otherForms(parsed) ==
    LET isOther(f) == /\ Truthy(f.parsed.prefix)
                      /\ lowerPrefix(f) \notin {<<"f","e","m">>, <<"m">>, <<"m","x">>, <<"m","y">>}
    IN  SelectSeq(parsed, isOther)

\* version?.replace(/^-/, '')
stripDash(version) ==
    IF version = Null THEN Null
    ELSE IF version # <<>> /\ version[1] = "-" THEN Tail(version)
    ELSE version

\* parseInt(version?.replace(/^-/, '') || dflt)
versionNumber(version, dflt) ==
    IF Truthy(stripDash(version)) THEN parseInt(stripDash(version)) ELSE parseInt(dflt)

\* Variant of sortByVersion: of the forms of equal version the later comes first
sortByVersionLaterFirst(forms) ==
    LET ver  == [i \in DOMAIN forms |-> versionNumber(forms[i].parsed.version, <<"0">>)]
        rank == [i \in DOMAIN forms |->
                    1 + Cardinality({j \in DOMAIN forms :
                            ver[j] > ver[i] \/ (ver[j] = ver[i] /\ j > i)})]
    IN  [k \in DOMAIN forms |-> forms[CHOOSE i \in DOMAIN forms : rank[i] = k]]

\* forms.sort((a, b) => bVer - aVer) with the versions read with default '0':
\* descending by version, forms of equal version keeping their order.
sortByVersion(forms) ==
    LET ver  == [i \in DOMAIN forms |-> versionNumber(forms[i].parsed.version, <<"0">>)]
        rank == [i \in DOMAIN forms |->
                    1 + Cardinality({j \in DOMAIN forms :
                            ver[j] > ver[i] \/ (ver[j] = ver[i] /\ j < i)})]
    IN  [k \in DOMAIN forms |-> forms[CHOOSE i \in DOMAIN forms : rank[i] = k]]

\* parsed.find(f => f.parsed.prefix?.toLowerCase() === prefix)
findPrefix(parsed, prefix) ==
    LET hasPrefix(f) == lowerPrefix(f) = prefix
    IN  FirstOrNull(SelectSeq(parsed, hasPrefix))

\* The identifier-specific canonical forms; null when the dexID has no
\* override or the group has no form carrying it.
overrideForm(dexID, parsed) ==
    CASE dexID \in {412, 413} -> findPrefix(parsed, <<"p","l","a","n","t">>)
      [] dexID = 421 -> findPrefix(parsed, <<"o">>)
      [] dexID \in {422, 423} -> findPrefix(parsed, <<"w">>)
      [] dexID = 550 -> findPrefix(parsed, <<"r","e","d">>)
      [] dexID \in {585, 586} -> findPrefix(parsed, <<"s","p","r","i","n","g">>)
      [] dexID = 666 ->
            LET isMea(f) == lowerPrefix(f) = <<"m","e","a">> /\ ~includes(f.key, <<"G","e","n","6">>)
            IN  FirstOrNull(SelectSeq(parsed, isMea))
      [] dexID \in {669, 670, 671} -> findPrefix(parsed, <<"r">>)
      [] dexID = 711 -> findPrefix(parsed, <<"x","l">>)
      [] dexID = 718 -> findPrefix(parsed, <<"5","0","_">>)
      [] dexID = 745 -> findPrefix(parsed, <<"d","a","y">>)
      [] dexID = 771 ->
            LET is01(f) == f.key = <<"-","0","1">>
            IN  FirstOrNull(SelectSeq(parsed, is01))
      [] dexID = 849 -> findPrefix(parsed, <<"a","m","p">>)
      [] dexID = 854 -> findPrefix(parsed, <<"a","n","t","i","q","u","e">>)
      [] dexID = 888 -> findPrefix(parsed, <<"h","e","r","o">>)
      [] dexID = 925 ->
            LET is4(f) == f.parsed.prefix = <<"4">>
            IN  FirstOrNull(SelectSeq(parsed, is4))
      [] dexID = 999 -> findPrefix(parsed, <<"c","h","e","s","t">>)
      [] dexID = 716 -> findPrefix(parsed, <<"n","e","u","t","r","a","l">>)
      [] dexID = 648 -> findPrefix(parsed, <<"a">>)
      [] dexID = 492 -> findPrefix(parsed, <<"l">>)
      [] OTHER -> NoForm

\* Variant of canonicalForm: the base forms are tried before the (fem) forms
canonicalFormBaseFirst(dexID, parsed) ==
    LET override == overrideForm(dexID, parsed)
    IN  IF override # NoForm
            THEN [form |-> override, canonicalIsFemale |-> FALSE]
        ELSE IF Len(baseForms(parsed)) > 0
            THEN [form |-> sortByVersion(baseForms(parsed))[1], canonicalIsFemale |-> FALSE]
        ELSE IF Len(femForms(parsed)) > 0
            THEN [form |-> sortByVersion(femForms(parsed))[1], canonicalIsFemale |-> TRUE]
        ELSE IF Len(plainNoMiddleForms(parsed)) > 0
            THEN [form |-> sortByVersion(plainNoMiddleForms(parsed))[1], canonicalIsFemale |-> FALSE]
        ELSE [form |-> NoForm, canonicalIsFemale |-> FALSE]

\* Variant of canonicalForm: the (fem) forms are tried before the override
canonicalFormFemFirst(dexID, parsed) ==
    LET override == overrideForm(dexID, parsed)
    IN  IF Len(femForms(parsed)) > 0
            THEN [form |-> sortByVersion(femForms(parsed))[1], canonicalIsFemale |-> TRUE]
        ELSE IF override # NoForm
            THEN [form |-> override, canonicalIsFemale |-> FALSE]
        ELSE IF Len(baseForms(parsed)) > 0
            THEN [form |-> sortByVersion(baseForms(parsed))[1], canonicalIsFemale |-> FALSE]
        ELSE IF Len(plainNoMiddleForms(parsed)) > 0
            THEN [form |-> sortByVersion(plainNoMiddleForms(parsed))[1], canonicalIsFemale |-> FALSE]
        ELSE [form |-> NoForm, canonicalIsFemale |-> FALSE]

\* The main canonical form and whether it was taken from the (fem) forms:
\* the override, else the highest (fem) version, else the highest base
\* version, else the highest plain version, else none.
canonicalForm(dexID, parsed) ==
    LET override == overrideForm(dexID, parsed)
    IN  IF override # NoForm
            THEN [form |-> override, canonicalIsFemale |-> FALSE]
        ELSE IF Len(femForms(parsed)) > 0
            THEN [form |-> sortByVersion(femForms(parsed))[1], canonicalIsFemale |-> TRUE]
        ELSE IF Len(baseForms(parsed)) > 0
            THEN [form |-> sortByVersion(baseForms(parsed))[1], canonicalIsFemale |-> FALSE]
        ELSE IF Len(plainNoMiddleForms(parsed)) > 0
            THEN [form |-> sortByVersion(plainNoMiddleForms(parsed))[1], canonicalIsFemale |-> FALSE]
        ELSE [form |-> NoForm, canonicalIsFemale |-> FALSE]

\* Variant of canonicalOfBucket: the bucket is not sorted before its first
\* entry is taken
canonicalOfBucketUnsorted(bucket) ==
    IF Len(bucket) > 0 THEN bucket[1] ELSE NoForm

\* The canonical form of a mega bucket: its highest version, or null
canonicalOfBucket(bucket) ==
    IF Len(bucket) > 0 THEN sortByVersion(bucket)[1] ELSE NoForm

canonicalMega(dexID, parsed) == canonicalOfBucket(megaForms(dexID, parsed))

canonicalMegaX(parsed) == canonicalOfBucket(megaXForms(parsed))

canonicalMegaY(parsed) == canonicalOfBucket(megaYForms(parsed))

\* What the naming loop reads besides the form it names
selection(dexID, parsed, pokemonName, pokemonRegionalForms) ==
    [dexID                |-> dexID,
     baseName             |-> IF Truthy(pokemonName) THEN pokemonName
                              ELSE <<"D","e","x","-">> \o NumToString(dexID),
     canonicalForm        |-> canonicalForm(dexID, parsed).form,
     canonicalIsFemale    |-> canonicalForm(dexID, parsed).canonicalIsFemale,
     canonicalMega        |-> canonicalMega(dexID, parsed),
     canonicalMegaX       |-> canonicalMegaX(parsed),
     canonicalMegaY       |-> canonicalMegaY(parsed),
     pokemonRegionalForms |-> pokemonRegionalForms]

\* `-v${version}` with the version read with default '1'
versionTag(form) ==
    <<"-", "v">> \o NumToString(versionNumber(form.parsed.version, <<"1">>))

\* middle && middle !== '-' && middle !== '' && !middle.toLowerCase().startsWith('base')
hasMiddle(middle) ==
    Truthy(middle) /\ middle # <<"-">> /\ ~startsWithBase(middle)

\* middle.replace(/^[-_]+/, '')
RECURSIVE cleanMiddle(_)
cleanMiddle(middle) ==
    IF middle # <<>> /\ middle[1] \in {"-", "_"} THEN cleanMiddle(Tail(middle)) ELSE middle

\* The counter a custom suffix is tallied under
suffixCounter(suffix) ==
    CASE suffix = <<"-","A","l","o","l","a">> -> "alola"
      [] suffix = <<"-","G","a","l","a","r">> -> "galar"
      [] suffix = <<"-","H","i","s","u","i">> -> "hisui"
      [] suffix = <<"-","P","a","l","d","e","a">> -> "paldea"
      [] suffix = <<"-","S","e","v","i","i">> -> "sevii"
      [] OTHER -> "custom"

\* The last branch of the naming rules: a custom prefix or middle content
customName(form, sel) ==
    LET prefix == lowerPrefix(form)
        middle == form.parsed.middle
        suffix == IF Truthy(prefix)
                  THEN getNameSuffix(form.parsed, sel.dexID, sel.pokemonRegionalForms)
                  ELSE Null
        clean  == IF hasMiddle(middle) THEN cleanMiddle(middle) ELSE <<>>
    IN  [name |-> sel.baseName
                  \o (IF Truthy(suffix) THEN suffix ELSE <<>>)
                  \o (IF clean # <<>> THEN <<"-">> \o clean ELSE <<>>),
         isCanonical |-> FALSE,
         counters |-> IF Truthy(suffix) THEN <<suffixCounter(suffix)>> ELSE <<"custom">>]

\* Variant of sameForm: the forms are compared by key instead of by filename
sameFormByKey(form, other) == other # NoForm /\ form.key = other.key

\* canonicalX && form.filename === canonicalX.filename
sameForm(form, other) == other # NoForm /\ form.filename = other.filename

\* Variant of canonicalName: the mega suffix is forgotten
canonicalNameBare(baseName, kind) == baseName

\* The name of a canonical form: the base name, with the suffix of its mega
\* bucket for a mega canonical
canonicalName(baseName, kind) ==
    CASE kind = "canonical" -> baseName
      [] kind = "mega" -> baseName \o <<"-","M","e","g","a">>
      [] kind = "megaX" -> baseName \o <<"-","M","e","g","a","-","X">>
      [] kind = "megaY" -> baseName \o <<"-","M","e","g","a","-","Y">>

\* One pass of the loop over the parsed forms: the name, the canonical flag
\* and the counters that are incremented for this form.
nameForm(form, sel) ==
    LET prefix == lowerPrefix(form)
        middle == form.parsed.middle
    IN  IF sameForm(form, sel.canonicalForm)
            THEN [name |-> canonicalName(sel.baseName, "canonical"), isCanonical |-> TRUE,
                  counters |-> <<"canonical">>]
        ELSE IF sameForm(form, sel.canonicalMega)
            THEN [name |-> canonicalName(sel.baseName, "mega"), isCanonical |-> TRUE,
                  counters |-> <<"mega">>]
        ELSE IF sameForm(form, sel.canonicalMegaX)
            THEN [name |-> canonicalName(sel.baseName, "megaX"), isCanonical |-> TRUE,
                  counters |-> <<"megaX">>]
        ELSE IF sameForm(form, sel.canonicalMegaY)
            THEN [name |-> canonicalName(sel.baseName, "megaY"), isCanonical |-> TRUE,
                  counters |-> <<"megaY">>]
        ELSE IF ~Truthy(prefix) /\ ~hasMiddle(middle)
            THEN [name |-> sel.baseName \o versionTag(form), isCanonical |-> FALSE,
                  counters |-> <<"versioned">>]
        ELSE IF ~Truthy(prefix) /\ Truthy(middle) /\ startsWithBase(middle)
            THEN [name |-> sel.baseName \o versionTag(form), isCanonical |-> FALSE,
                  counters |-> <<"versioned">>]
        ELSE IF prefix = <<"m","a","s","c">>
            THEN [name |-> sel.baseName \o <<"-","M","a","l","e">>, isCanonical |-> FALSE, counters |-> <<"male">>]
        ELSE IF prefix = <<"m">> /\ sel.dexID # 201
            THEN [name |-> sel.baseName \o <<"-","M","e","g","a">> \o versionTag(form), isCanonical |-> FALSE,
                  counters |-> <<"mega", "versioned">>]
        ELSE IF prefix = <<"m","x">>
            THEN [name |-> sel.baseName \o <<"-","M","e","g","a","-","X">> \o versionTag(form), isCanonical |-> FALSE,
                  counters |-> <<"megaX", "versioned">>]
        ELSE IF prefix = <<"m","y">>
            THEN [name |-> sel.baseName \o <<"-","M","e","g","a","-","Y">> \o versionTag(form), isCanonical |-> FALSE,
                  counters |-> <<"megaY", "versioned">>]
        ELSE IF prefix = <<"f","e","m">>
            THEN IF sel.canonicalIsFemale
                 THEN [name |-> sel.baseName \o versionTag(form), isCanonical |-> FALSE,
                       counters |-> <<"versioned">>]
                 ELSE [name |-> sel.baseName \o <<"-","F","e","m","a","l","e">>, isCanonical |-> FALSE,
                       counters |-> <<"female">>]
        ELSE customName(form, sel)

\* The loop over the parsed forms: what each pass computes, in order
namedForms(parsed, sel) == [i \in DOMAIN parsed |-> nameForm(parsed[i], sel)]

\* Variant of processedForms: the record is pushed in the naming branch
\* only, so the canonical forms are left out
processedFormsNamedOnly(parsed, named) ==
    LET kept == {i \in DOMAIN parsed : ~named[i].isCanonical}
        nth(k) == CHOOSE i \in kept : Cardinality({j \in kept : j < i}) = k - 1
    IN  [k \in 1..Cardinality(kept) |->
            [filename    |-> parsed[nth(k)].filename,
             key         |-> parsed[nth(k)].key,
             dexID       |-> parsed[nth(k)].dexID,
             name        |-> named[nth(k)].name,
             isCanonical |-> named[nth(k)].isCanonical]]

\* processedForms before the final sort: one record per parsed form, in order
processedForms(parsed, named) ==
    [i \in DOMAIN parsed |->
        [filename    |-> parsed[i].filename,
         key         |-> parsed[i].key,
         dexID       |-> parsed[i].dexID,
         name        |-> named[i].name,
         isCanonical |-> named[i].isCanonical]]

\* Variant of compareProcessed: the canonical flag is not compared
compareProcessedByName(a, b) == localeCompare(a.name, b.name)

\* The comparator of the final sort: canonical first, then by name
compareProcessed(a, b) ==
    IF a.isCanonical /\ ~b.isCanonical THEN -1
    ELSE IF ~a.isCanonical /\ b.isCanonical THEN 1
    ELSE localeCompare(a.name, b.name)

\* processedForms.sort(...): a stable sort by compareProcessed
sortProcessed(forms) ==
    LET before(j, i) == LET c == compareProcessed(forms[j], forms[i])
                        IN  c < 0 \/ (c = 0 /\ j < i)
        rank == [i \in DOMAIN forms |->
                    1 + Cardinality({j \in DOMAIN forms : j # i /\ before(j, i)})]
    IN  [k \in DOMAIN forms |-> forms[CHOOSE i \in DOMAIN forms : rank[i] = k]]

\* The counters of the statistics tally
StatNames == {"canonical", "versioned", "male", "mega", "megaX", "megaY", "female",
              "alola", "galar", "hisui", "paldea", "sevii", "custom"}

\* How often a call increments a counter: once for each form tallied under
\* it, and stats.female once more when the canonical is taken from (fem).
increments(named, canonicalIsFemale, counter) ==
    Cardinality({<<i, k>> \in (DOMAIN named) \X (1..2) :
                    /\ k <= Len(named[i].counters)
                    /\ named[i].counters[k] = counter})
    + (IF counter = "female" /\ canonicalIsFemale THEN 1 ELSE 0)

\* Variant of processDexGroup: canonicalIsFemale is kept from earlier calls
\* (once a call has counted a female form, it stays true)
processDexGroupStaleFlag(dexID, forms, pokemonName, pokemonRegionalForms, stats) ==
    LET stale(sel) == [sel EXCEPT !.canonicalIsFemale = @ \/ stats["female"] > 0]
        parsing   == {parseForms(preFilter(dexID, forms))}
        selecting == {<<parsed, stale(selection(dexID, parsed, pokemonName,
                                                pokemonRegionalForms))>> : parsed \in parsing}
        naming    == {<<ps[1], ps[2], namedForms(ps[1], ps[2])>> : ps \in selecting}
    IN  CHOOSE result \in
            {[forms |-> sortProcessed(processedForms(parsed, named)),
              stats |-> [c \in StatNames |->
                            stats[c] + increments(named, sel.canonicalIsFemale, c)]] :
                <<parsed, sel, named>> \in naming} : TRUE

\* processDexGroup(dexID, forms, pokemonName), with the two globals it uses
\* made explicit: pokemonRegionalForms, which it reads, and stats, which it
\* updates. Returns the sorted list and the updated counters.
processDexGroup(dexID, forms, pokemonName, pokemonRegionalForms, stats) ==
    \* the one-element sets make TLC compute each intermediate value once
    LET parsing   == {parseForms(preFilter(dexID, forms))}
        selecting == {<<parsed, selection(dexID, parsed, pokemonName, pokemonRegionalForms)>> :
                         parsed \in parsing}
        naming    == {<<ps[1], ps[2], namedForms(ps[1], ps[2])>> : ps \in selecting}
    IN  CHOOSE result \in
            {[forms |-> sortProcessed(processedForms(parsed, named)),
              stats |-> [c \in StatNames |->
                            stats[c] + increments(named, sel.canonicalIsFemale, c)]] :
                <<parsed, sel, named>> \in naming} : TRUE

(***************************************************************************)
(* Stage 3: the state of process-moemon-mapping.js                         *)
(***************************************************************************)

VARIABLES
    rawMapping,            \* the parsed stage-1 file: dexID -> list of form records
    pokemonNames,          \* dexID -> name of the first stage-2 entry
    pokemonRegionalForms,  \* dexID -> regional forms found in the stage-2 entries
    processedMapping,      \* dexID -> list returned by processDexGroup
    stats,                 \* the statistics tally
    outputFile,            \* content of the stage-3 output file, Null while unwritten
    pc,                    \* position of the script
    callLog,               \* results of direct calls of processDexGroup
    dexIDsWithoutCanonical,\* the end-of-run report of stage 3, Null while not made
    imageFiles,            \* stage 1: the image files of the input directory
    handled,               \* stage 1: number of files the loop has handled
    dexMapping,            \* stage 1: dexID -> entries of the accepted files
    warnings,              \* stage 1: the rejected files
    extractStats,          \* stage 1: its stats {processed, warnings}
    mappingFile,           \* stage 1: content of its output file, Null while unwritten
    species,               \* stage 2: the entries of data.species, in order
    imported,              \* stage 2: number of entries the loop has mapped
    rrMapping,             \* stage 2: dexID -> mapped entries
    rrFile,                \* stage 2: content of its output file, Null while unwritten
    inputFile,             \* stage 3: its input file on disk
    exitStatus,            \* stage 3: <<>> while the process runs, then its exit status
    writes,                \* stage 3: number of writes of the output file
    allImages,             \* splitter: the sprite sheets found, in the order of the scan
    splitDone,             \* splitter: number of sheets the loop has handled
    filenameRegistry,      \* splitter: file name -> paths of the sheets it was met for
    splitStats,            \* splitter: its stats {processed, failed, duplicates}
    splitOutput,           \* splitter: <<output folder, file name>> -> sheet the sprite is cut from
    archive,               \* gap filler: the sheets of the new sprite archive
    newSprites,            \* gap filler: the sheets found by the scan, by kind
    gaps,                  \* gap filler: the gaps identified {missingBase, missingMega, missingRegional}
    gapDone,               \* gap filler: number of calls of splitSpriteSheet made in this run
    spriteDir,             \* gap filler: <<type, file name>> -> sheet the sprite file is cut from
    processed,             \* gap filler: its lists {split, skipped}
    fillRun                \* gap filler: the number of the run, 0 when it is not used

stage3Vars == <<rawMapping, pokemonNames, pokemonRegionalForms, processedMapping,
                stats, outputFile, pc, callLog, dexIDsWithoutCanonical>>

stage1Vars == <<imageFiles, handled, dexMapping, warnings, extractStats, mappingFile>>

stage2Vars == <<species, imported, rrMapping, rrFile>>

startVars == <<inputFile, exitStatus, writes>>

splitVars == <<allImages, splitDone, filenameRegistry, splitStats, splitOutput>>

gapVars == <<archive, newSprites, gaps, gapDone, spriteDir, processed, fillRun>>

toolVars == <<splitVars, gapVars>>

vars == <<stage3Vars, stage1Vars, stage2Vars, startVars, toolVars>>

\* An object without properties
EmptyObject == [k \in {} |-> Null]

\* A file that does not exist
NoFile == [exists |-> FALSE, valid |-> FALSE, content |-> EmptyObject]

\* A file that holds a JSON text, with the value the text stands for
JsonFile(value) == [exists |-> TRUE, valid |-> TRUE, content |-> value]

\* A file that exists and holds no JSON text
BrokenFile == [exists |-> TRUE, valid |-> FALSE, content |-> EmptyObject]

(***************************************************************************)
(* Bounds and input pools                                                  *)
(***************************************************************************)

\* Largest number of sprite files of one dexID
MaxForms == 4

\* Largest number of direct calls of processDexGroup on one input
MaxCalls == 2

\* Largest number of forms of a group processDexGroup is called on directly
MaxCallForms == 2

\* The dexIDs explored: two without identifier-specific rules, and some with
DexIDs == {6, 25, 201, 412, 666, 771}

\* What follows the four digits in the names of the sprite files of a dexID
FileRests(dexID) ==
    CASE dexID = 6 -> {<<>>, <<"1">>, <<"b","a","s","e">>, <<"(","m",")","-","1">>, <<"(","m",")","-","2">>, <<"(","m",")","-","1","0">>, <<"(","m","x",")","-","1">>, <<"(","m","y",")","-","1">>, <<"(","f","e","m",")","-","1">>}
      [] dexID = 25 ->
            {<<>>, <<"1">>, <<"2">>, <<"-","1">>, <<"1","0">>, <<"b","a","s","e">>, <<"B","a","s","e","2">>, <<"(","f","e","m",")","-","1">>, <<"(","F","e","m",")","-","2">>, <<"(","m","a","s","c",")","-","1">>, <<"(","x",")","-","1">>, <<"f","o","o">>, <<"(","F","O","O",")","_","a","-","1">>, <<"(","a","l","l",")">>, <<"(","r",")","-","1">>}
      [] dexID = 201 -> {<<"1">>, <<"(","m",")","-","1">>, <<"(","r",")","-","1">>, <<"(","m","x",")","-","1">>, <<"(","f","e","m",")","-","1">>, <<"a">>}
      [] dexID = 412 -> {<<"1">>, <<"b","a","s","e">>, <<"(","p","l","a","n","t",")","-","1">>, <<"(","P","l","a","n","t",")","-","2">>, <<"(","s","a","n","d","y",")","-","1">>, <<"(","f","e","m",")","-","1">>}
      [] dexID = 666 -> {<<"1">>, <<"(","m","e","a",")","-","1">>, <<"(","m","e","a",")","G","e","n","6">>, <<"(","f","e","m",")","G","e","n","6">>, <<"(","f","e","m",")","-","1">>, <<"(","A","l","l",")","2">>}
      [] dexID = 26 -> {<<"1">>, <<"(","a",")","-","1">>, <<"(","d",")","-","1">>, <<"(","s",")","-","1">>, <<"(","e",")","-","1">>, <<"(","r",")","-","1">>, <<"(","m",")","-","1">>, <<"_","1">>}
      [] dexID = 386 -> {<<"1">>, <<"(","a",")","-","1">>, <<"(","D",")","-","1">>, <<"(","s",")","-","2">>, <<"(","e",")","-","1">>, <<"(","r",")","-","1">>}
      [] dexID = 670 -> {<<"1">>, <<"(","e",")","-","1">>, <<"(","b",")","-","1">>, <<"(","a",")","-","1">>, <<"(","r",")","-","1">>, <<"(","s",")","-","1">>}
      [] dexID = 771 -> {<<"G","e","n","6">>, <<"-","0","1">>, <<"-","0","2">>, <<"1">>, <<"(","f","e","m",")","-","1">>, <<"b","a","s","e">>}

\* Names stage 2 may give a dexID: none, or a name
NameChoices == {Null, <<"M","o","e">>}

\* Regional forms stage 2 may have found for a dexID: none, one, several
RegionChoices == {<<>>, <<<<"A","l","o","l","a">>>>, <<<<"A","l","o","l","a">>, <<"G","a","l","a","r">>>>}

(***************************************************************************)
(* Stage 1, as far as it shapes the input of stage 3                       *)
(***************************************************************************)

\* dexID as the four digits a sprite file name starts with
Pad4(dexID) ==
    LET d == NumToString(dexID)
    IN  [i \in 1..(4 - Len(d)) |-> "0"] \o d

\* path.basename(filename, path.extname(filename)): the name without its
\* extension, which starts at the last dot unless that is the first character
nameWithoutExt(filename) ==
    LET dots == {i \in DOMAIN filename : filename[i] = "."}
        last == CHOOSE i \in dots : \A j \in dots : j <= i
    IN  IF dots = {} \/ last = 1 THEN filename ELSE SubSeq(filename, 1, last - 1)

\* s.substring(0, n)
firstChars(s, n) == SubSeq(s, 1, IF Len(s) < n THEN Len(s) ELSE n)

\* /^\d{n}$/.test(s)
allDigits(s, n) == Len(s) = n /\ \A i \in DOMAIN s : IsDigit(s[i])

\* Variant of idWidth: three digits are not tried
idWidthFourOnly(filename) ==
    IF allDigits(firstChars(nameWithoutExt(filename), 4), 4) THEN 4 ELSE 0

\* Number of leading characters the dexID is read from: 4, else 3, else none
idWidth(filename) ==
    IF allDigits(firstChars(nameWithoutExt(filename), 4), 4) THEN 4
    ELSE IF allDigits(firstChars(nameWithoutExt(filename), 3), 3) THEN 3
    ELSE 0

\* The entry pushed for a file whose name starts with a dexID
entryOf(filename) ==
    LET name == nameWithoutExt(filename)
        rest == substring(name, idWidth(filename))
    IN  [filename |-> filename,
         key      |-> IF Truthy(rest) THEN rest ELSE <<"b","a","s","e">>,
         dexID    |-> parseInt(firstChars(name, idWidth(filename)))]

\* The warning pushed for a file whose name starts with no dexID; of the
\* reason, the quoted first characters
warningOf(filename) ==
    [filename |-> filename, reason |-> firstChars(nameWithoutExt(filename), 4)]

\* The record the key extractor makes of the file "<4 digits><rest>.png"
formRecord(dexID, rest) ==
    entryOf(Pad4(dexID) \o rest \o <<".","p","n","g">>)

\* Sprite files of a dexID named with three digits
ShortNames(dexID) ==
    IF dexID = 201 THEN {<<"2","0","1","m",".","p","n","g">>} ELSE {}

\* dexMapping[dexID].sort((a, b) => a.key.localeCompare(b.key)) has run
sortedByKey(forms) ==
    \A i \in 1..(Len(forms) - 1) : localeCompare(forms[i].key, forms[i + 1].key) <= 0

\* The groups stage 1 can write for a dexID: the records of up to maxForms
\* different files, sorted by key
Groups(dexID, maxForms) ==
    LET records == {formRecord(dexID, rest) : rest \in FileRests(dexID)}
                           \cup {entryOf(f) : f \in ShortNames(dexID)}
        longer(shorter) ==
            {Append(forms, r) : <<forms, r>> \in
                {<<forms, r>> \in shorter \X records :
                    /\ \A i \in DOMAIN forms : forms[i] # r
                    /\ sortedByKey(<<forms[Len(forms)], r>>)}}
        ofLength[n \in 1..maxForms] ==
            IF n = 1 THEN {<<r>> : r \in records} ELSE longer(ofLength[n - 1])
    IN  UNION {ofLength[n] : n \in 1..maxForms}

\* The regional table is read for the prefix "r" only
hasRegionalPrefix(forms) ==
    \E i \in DOMAIN forms : lowerPrefix([parsed |-> parseKey(forms[i].key)]) = <<"r">>

ZeroStats == [c \in StatNames |-> 0]

\* Stage 1 is not running
idleStage1 ==
    /\ imageFiles = <<>>
    /\ handled = 0
    /\ dexMapping = EmptyObject
    /\ warnings = <<>>
    /\ extractStats = [processed |-> 0, warnings |-> 0]
    /\ mappingFile = Null

\* newSprites before the scan
NoSprites == [base |-> EmptyObject, mega |-> EmptyObject, regional |-> EmptyObject, unown |-> <<>>]

\* gaps before identifyGaps
NoGaps == [missingBase |-> <<>>, missingMega |-> <<>>, missingRegional |-> <<>>]

\* processed before a run
NothingProcessed == [split |-> <<>>, skipped |-> <<>>]

\* The gap filler is not running
idleFill ==
    /\ archive = <<>>
    /\ newSprites = NoSprites
    /\ gaps = NoGaps
    /\ gapDone = 0
    /\ spriteDir = EmptyObject
    /\ processed = NothingProcessed
    /\ fillRun = 0

\* The sprite tools are not running
idleTools ==
    /\ idleFill
    /\ allImages = <<>>
    /\ splitDone = 0
    /\ filenameRegistry = EmptyObject
    /\ splitStats = [processed |-> 0, failed |-> 0, duplicates |-> <<>>]
    /\ splitOutput = EmptyObject

\* Stage 2 is not running
idleStage2 ==
    /\ species = <<>>
    /\ imported = 0
    /\ rrMapping = EmptyObject
    /\ rrFile = Null

\* The state after the script has loaded its two input files, the stage-1
\* file holding one group, of one of the dexIDs and of up to maxForms forms
LoadedOf(dexIDs, maxForms) ==
    \E dexID \in dexIDs :
    \E forms \in Groups(dexID, maxForms) :
    \E name \in NameChoices :
    \E regions \in RegionChoices :
        /\ regions # <<>> => hasRegionalPrefix(forms)
        /\ rawMapping = (dexID :> forms)
        /\ inputFile = JsonFile(rawMapping)
        /\ exitStatus = <<>>
        /\ writes = 0
        /\ pokemonNames = IF name = Null THEN EmptyObject ELSE (dexID :> name)
        /\ pokemonRegionalForms = IF regions = <<>> THEN EmptyObject ELSE (dexID :> regions)
        /\ processedMapping = EmptyObject
        /\ stats = ZeroStats
        /\ outputFile = Null
        /\ pc = "process"
        /\ callLog = <<>>
        /\ dexIDsWithoutCanonical = Null
        /\ idleStage1
        /\ idleTools
        /\ idleStage2

Loaded(maxForms) == LoadedOf(DexIDs, maxForms)

\* The groups the loop has not reached yet
remaining == DOMAIN rawMapping \ DOMAIN processedMapping

\* Object.entries lists integer keys in ascending order
nextDexID == CHOOSE d \in remaining : \A e \in remaining : d <= e

\* One pass of the loop: processedMapping[dexID] = processDexGroup(...)
ProcessGroup ==
    /\ pc = "process"
    /\ remaining # {}
    /\ \E dexID \in {nextDexID} :
       \E result \in {processDexGroup(dexID, rawMapping[dexID], Lookup(pokemonNames, dexID),
                                      pokemonRegionalForms, stats)} :
            /\ processedMapping' = [d \in DOMAIN processedMapping \cup {dexID} |->
                                       IF d = dexID THEN result.forms ELSE processedMapping[d]]
            /\ stats' = result.stats
    /\ UNCHANGED <<rawMapping, pokemonNames, pokemonRegionalForms, outputFile, pc, callLog,
                   dexIDsWithoutCanonical, stage1Vars, stage2Vars, startVars, toolVars>>

\* fs.writeFileSync(outputFile, JSON.stringify(processedMapping)) after the loop
WriteOutput ==
    /\ pc = "process"
    /\ remaining = {}
    /\ outputFile' = processedMapping
    /\ writes' = writes + 1
    /\ pc' = "report"
    /\ UNCHANGED <<rawMapping, pokemonNames, pokemonRegionalForms, processedMapping,
                   stats, callLog, dexIDsWithoutCanonical, stage1Vars, stage2Vars,
                   inputFile, exitStatus, toolVars>>

\* `${f.name} (${f.key})`
formLine(f) == f.name \o <<" ", "(">> \o f.key \o <<")">>

\* The entry of the report for a group without a canonical record
reportEntry(dexID) ==
    [dexID     |-> dexID,
     name      |-> IF Truthy(Lookup(pokemonNames, dexID)) THEN pokemonNames[dexID]
                   ELSE <<"U","n","k","n","o","w","n">>,
     formCount |-> Len(processedMapping[dexID]),
     forms     |-> [i \in DOMAIN processedMapping[dexID] |-> formLine(processedMapping[dexID][i])]]

\* Variant of withoutCanonical: the search ends at the first dexID found
withoutCanonicalFirstOnly ==
    LET found == {d \in DOMAIN processedMapping :
                    ~\E i \in DOMAIN processedMapping[d] : processedMapping[d][i].isCanonical}
    IN  {d \in found : \A e \in found : d <= e}

\* The dexIDs of processedMapping whose forms.some(f => f.isCanonical) is false
withoutCanonical ==
    {d \in DOMAIN processedMapping :
        ~\E i \in DOMAIN processedMapping[d] : processedMapping[d][i].isCanonical}

\* The set of integers s as the sequence of its elements in ascending order
ascending(s) ==
    [k \in 1..Cardinality(s) |-> CHOOSE d \in s : Cardinality({e \in s : e < d}) = k - 1]

\* The check for dexIDs with no canonical forms at the end of the script,
\* after which the process ends with status 0
Report ==
    /\ pc = "report"
    /\ dexIDsWithoutCanonical' =
           [k \in 1..Cardinality(withoutCanonical) |-> reportEntry(ascending(withoutCanonical)[k])]
    /\ pc' = "done"
    /\ exitStatus' = <<0>>
    /\ UNCHANGED <<rawMapping, pokemonNames, pokemonRegionalForms, processedMapping,
                   stats, outputFile, callLog, stage1Vars, stage2Vars, inputFile, writes, toolVars>>

Init == Loaded(MaxForms)

Next == ProcessGroup \/ WriteOutput \/ Report

Spec == Init /\ [][Next]_vars

(***************************************************************************)
(* The script run on a stage-1 file of two groups                          *)
(***************************************************************************)

\* Largest number of forms of each of the two groups
MaxRunForms == 2

\* The dexIDs of the two groups
RunDexIDs == {201, 771}

InitRun ==
    \E first \in Groups(201, MaxRunForms) :
    \E second \in Groups(771, MaxRunForms) :
    \E named \in SUBSET RunDexIDs :
        /\ rawMapping = (201 :> first) @@ (771 :> second)
        /\ inputFile = JsonFile(rawMapping)
        /\ exitStatus = <<>>
        /\ writes = 0
        /\ pokemonNames = [d \in named |-> <<"M","o","e">>]
        /\ pokemonRegionalForms = EmptyObject
        /\ processedMapping = EmptyObject
        /\ stats = ZeroStats
        /\ outputFile = Null
        /\ pc = "process"
        /\ callLog = <<>>
        /\ dexIDsWithoutCanonical = Null
        /\ idleStage1
        /\ idleTools
        /\ idleStage2

SpecRun == InitRun /\ [][Next]_vars

(***************************************************************************)
(* The script run on groups of dexIDs in and out of the special-case table *)
(***************************************************************************)

\* Largest number of forms of the group
MaxTableForms == 2

\* dexIDs with identifier-specific prefix mappings (201, 386, 670), and one without
TableDexIDs == {26, 201, 386, 670}

InitTable == LoadedOf(TableDexIDs, MaxTableForms)

SpecTable == InitTable /\ [][Next]_vars

(***************************************************************************)
(* processDexGroup called directly, any number of times, on one input      *)
(***************************************************************************)

InitCalls == Loaded(MaxCallForms)

\* The filenames of a list of forms, in order
filenamesOf(forms) == [i \in DOMAIN forms |-> forms[i].filename]

\* One call of processDexGroup on the group, with the counters as they are.
\* The log keeps the order of the forms passed and, for a call on the list
\* an earlier call returned, the place of that call (0 otherwise).
Call ==
    /\ Len(callLog) < MaxCalls
    /\ \E dexID \in DOMAIN rawMapping :
       \E result \in {processDexGroup(dexID, rawMapping[dexID], Lookup(pokemonNames, dexID),
                                      pokemonRegionalForms, stats)} :
            /\ callLog' = Append(callLog, [dexID |-> dexID, stats |-> stats,
                                           input |-> filenamesOf(rawMapping[dexID]), from |-> 0,
                                           forms |-> result.forms])
            /\ stats' = result.stats
    /\ UNCHANGED <<rawMapping, pokemonNames, pokemonRegionalForms, processedMapping,
                   outputFile, pc, dexIDsWithoutCanonical, stage1Vars, stage2Vars, startVars, toolVars>>

\* The script is started again: a new process begins with all counters at 0
Restart ==
    /\ stats # ZeroStats
    /\ stats' = ZeroStats
    /\ UNCHANGED <<rawMapping, pokemonNames, pokemonRegionalForms, processedMapping,
                   outputFile, pc, callLog, dexIDsWithoutCanonical, stage1Vars, stage2Vars, startVars, toolVars>>

NextCalls == Call \/ Restart

SpecCalls == InitCalls /\ [][NextCalls]_vars

\* The lists that hold the forms of a list in some order
Reordered(forms) ==
    {[i \in DOMAIN forms |-> forms[p[i]]] :
        p \in {q \in [DOMAIN forms -> DOMAIN forms] : \A i, j \in DOMAIN forms : i # j => q[i] # q[j]}}

\* One call of processDexGroup on the forms of the group in some order
CallReordered ==
    /\ Len(callLog) < MaxCalls
    /\ \E dexID \in DOMAIN rawMapping :
       \E forms \in Reordered(rawMapping[dexID]) :
       \E result \in {processDexGroup(dexID, forms, Lookup(pokemonNames, dexID),
                                      pokemonRegionalForms, stats)} :
            /\ callLog' = Append(callLog, [dexID |-> dexID, stats |-> stats,
                                           input |-> filenamesOf(forms), from |-> 0,
                                           forms |-> result.forms])
            /\ stats' = result.stats
    /\ UNCHANGED <<rawMapping, pokemonNames, pokemonRegionalForms, processedMapping,
                   outputFile, pc, dexIDsWithoutCanonical, stage1Vars, stage2Vars, startVars, toolVars>>

NextReordered == CallReordered \/ Restart

SpecReordered == InitCalls /\ [][NextReordered]_vars

\* One call of processDexGroup on the list an earlier call has returned,
\* with the same dexID and the same reference name
CallOnResult ==
    /\ Len(callLog) < MaxCalls
    /\ \E k \in DOMAIN callLog :
       \E result \in {processDexGroup(callLog[k].dexID, callLog[k].forms,
                                      Lookup(pokemonNames, callLog[k].dexID),
                                      pokemonRegionalForms, stats)} :
            /\ callLog' = Append(callLog, [dexID |-> callLog[k].dexID, stats |-> stats,
                                           input |-> filenamesOf(callLog[k].forms), from |-> k,
                                           forms |-> result.forms])
            /\ stats' = result.stats
    /\ UNCHANGED <<rawMapping, pokemonNames, pokemonRegionalForms, processedMapping,
                   outputFile, pc, dexIDsWithoutCanonical, stage1Vars, stage2Vars, startVars, toolVars>>

NextOnResult == CallReordered \/ CallOnResult \/ Restart

SpecOnResult == InitCalls /\ [][NextOnResult]_vars

(***************************************************************************)
(* Stage 1: the key extractor                                              *)
(***************************************************************************)

\* Largest number of image files in the input directory
MaxFiles == 3

\* The image files the directory may hold
FilePool ==
    {<<"0","0","2","5",".","p","n","g">>, <<"0","0","2","5","1",".","p","n","g">>, <<"0","2","5",".","p","n","g">>, <<"0","0","0","6","(","m",")","-","1",".","p","n","g">>, <<"2","0","1","m",".","p","n","g">>,
     <<"2","5","a",".","p","n","g">>, <<"a","b","c",".","j","p","g">>, <<"1","2",".","p","n","g">>}

\* The lists of n different files, in any order
RECURSIVE Listings(_)
Listings(n) ==
    IF n = 0 THEN {<<>>}
    ELSE {Append(l, f) : <<l, f>> \in
             {<<l, f>> \in Listings(n - 1) \X FilePool : \A i \in DOMAIN l : l[i] # f}}

\* Stage 3 is not running
idleStage3 ==
    /\ rawMapping = EmptyObject
    /\ pokemonNames = EmptyObject
    /\ pokemonRegionalForms = EmptyObject
    /\ processedMapping = EmptyObject
    /\ stats = ZeroStats
    /\ outputFile = Null
    /\ callLog = <<>>
    /\ dexIDsWithoutCanonical = Null
    /\ inputFile = NoFile
    /\ exitStatus = <<>>
    /\ writes = 0

InitExtract ==
    /\ \E n \in 1..MaxFiles : imageFiles \in Listings(n)
    /\ handled = 0
    /\ dexMapping = EmptyObject
    /\ warnings = <<>>
    /\ extractStats = [processed |-> 0, warnings |-> 0]
    /\ mappingFile = Null
    /\ pc = "extract"
    /\ idleStage3
    /\ idleStage2
    /\ idleTools

\* Variant of pushEntry: the array of the dexID is made anew for every entry
pushEntryAnew(mapping, entry) ==
    [d \in DOMAIN mapping \cup {entry.dexID} |->
        IF d = entry.dexID THEN <<entry>> ELSE mapping[d]]

\* if (!dexMapping[dexID]) dexMapping[dexID] = []; dexMapping[dexID].push(entry)
pushEntry(mapping, entry) ==
    [d \in DOMAIN mapping \cup {entry.dexID} |->
        IF d = entry.dexID THEN Append(IF d \in DOMAIN mapping THEN mapping[d] ELSE <<>>, entry)
        ELSE mapping[d]]

\* One pass of the loop over imageFiles: the file is entered in its group,
\* or rejected with a warning
HandleFile ==
    /\ pc = "extract"
    /\ handled < Len(imageFiles)
    /\ \E filename \in {imageFiles[handled + 1]} :
          IF idWidth(filename) = 0
          THEN /\ warnings' = Append(warnings, warningOf(filename))
               /\ extractStats' = [extractStats EXCEPT !.warnings = @ + 1]
               /\ UNCHANGED dexMapping
          ELSE /\ dexMapping' = pushEntry(dexMapping, entryOf(filename))
               /\ extractStats' = [extractStats EXCEPT !.processed = @ + 1]
               /\ UNCHANGED warnings
    /\ handled' = handled + 1
    /\ UNCHANGED <<imageFiles, mappingFile, pc, rawMapping, pokemonNames, pokemonRegionalForms,
                   processedMapping, stats, outputFile, callLog, dexIDsWithoutCanonical,
                   stage2Vars, startVars, toolVars>>

\* entries.sort((a, b) => a.key.localeCompare(b.key)): a stable sort by key
sortByKey(entries) ==
    LET before(j, i) == LET c == localeCompare(entries[j].key, entries[i].key)
                        IN  c < 0 \/ (c = 0 /\ j < i)
        rank == [i \in DOMAIN entries |->
                    1 + Cardinality({j \in DOMAIN entries : j # i /\ before(j, i)})]
    IN  [k \in DOMAIN entries |-> entries[CHOOSE i \in DOMAIN entries : rank[i] = k]]

\* After the loop: every group is sorted by key and the mapping is written
SortAndWrite ==
    /\ pc = "extract"
    /\ handled = Len(imageFiles)
    /\ dexMapping' = [d \in DOMAIN dexMapping |-> sortByKey(dexMapping[d])]
    /\ mappingFile' = dexMapping'
    /\ pc' = "done"
    /\ UNCHANGED <<imageFiles, handled, warnings, extractStats, rawMapping, pokemonNames,
                   pokemonRegionalForms, processedMapping, stats, outputFile, callLog,
                   dexIDsWithoutCanonical, stage2Vars, startVars, toolVars>>

NextExtract == HandleFile \/ SortAndWrite

SpecExtract == InitExtract /\ [][NextExtract]_vars

(***************************************************************************)
(* Stage 2: the reference importer, and stage 3 loading its output         *)
(***************************************************************************)

\* The values of the field order: absent, null, or a number
Undefined == [type |-> "undefined", value |-> 0]

NullOrder == [type |-> "null", value |-> 0]

Number(n) == [type |-> "number", value |-> n]

\* Largest number of entries of data.species
MaxSpecies == 3

\* The values of order explored
Orders == {Undefined, NullOrder, Number(0), Number(1)}

\* The entries data.species may hold at the i-th place of its enumeration
SpeciesAt(i) ==
    {[ID       |-> i,
      key      |-> <<"K", Digits[i + 1]>> \o (IF i = 2 THEN <<"A","l","o","l","a">> ELSE <<>>),
      order    |-> order,
      ancestor |-> Null,
      name     |-> <<"N", Digits[i + 1]>>,
      dexID    |-> dexID] : order \in Orders, dexID \in {25, 26}}

RECURSIVE SpeciesLists(_)
SpeciesLists(n) ==
    IF n = 0 THEN {<<>>}
    ELSE {Append(l, e) : <<l, e>> \in SpeciesLists(n - 1) \X SpeciesAt(n)}

InitImport ==
    /\ \E n \in 1..MaxSpecies : species \in SpeciesLists(n)
    /\ imported = 0
    /\ rrMapping = EmptyObject
    /\ rrFile = Null
    /\ pc = "import"
    /\ idleStage3
    /\ idleStage1
    /\ idleTools

\* The entry stage 2 keeps of an entry of data.species
mappedEntry(entry) ==
    [ID       |-> entry.ID,
     key      |-> entry.key,
     order    |-> IF entry.order # Undefined THEN entry.order ELSE NullOrder,
     ancestor |-> entry.ancestor,
     name     |-> entry.name]

\* One pass of the loop over data.species
ImportEntry ==
    /\ pc = "import"
    /\ imported < Len(species)
    /\ \E entry \in {species[imported + 1]} :
          rrMapping' =
              [d \in DOMAIN rrMapping \cup {entry.dexID} |->
                  IF d = entry.dexID
                  THEN Append(IF d \in DOMAIN rrMapping THEN rrMapping[d] ELSE <<>>,
                              mappedEntry(entry))
                  ELSE rrMapping[d]]
    /\ imported' = imported + 1
    /\ UNCHANGED <<species, rrFile, pc, rawMapping, pokemonNames, pokemonRegionalForms,
                   processedMapping, stats, outputFile, callLog, dexIDsWithoutCanonical,
                   stage1Vars, startVars, toolVars>>

\* Variant of compareOrder: the orders are subtracted whatever they are,
\* null counting as 0
compareOrderSubtract(a, b) == a.order.value - b.order.value

\* The comparator of the sort by order: nulls first, then by order value
compareOrder(a, b) ==
    IF a.order # NullOrder /\ b.order # NullOrder THEN a.order.value - b.order.value
    ELSE IF a.order = NullOrder /\ b.order # NullOrder THEN -1
    ELSE IF a.order # NullOrder /\ b.order = NullOrder THEN 1
    ELSE 0

\* entries.sort(compareOrder): a stable sort
sortByOrder(entries) ==
    LET before(j, i) == LET c == compareOrder(entries[j], entries[i])
                        IN  c < 0 \/ (c = 0 /\ j < i)
        rank == [i \in DOMAIN entries |->
                    1 + Cardinality({j \in DOMAIN entries : j # i /\ before(j, i)})]
    IN  [k \in DOMAIN entries |-> entries[CHOOSE i \in DOMAIN entries : rank[i] = k]]

\* After the loop: every list is sorted by order and the mapping is written
SortAndWriteRR ==
    /\ pc = "import"
    /\ imported = Len(species)
    /\ rrMapping' = [d \in DOMAIN rrMapping |-> sortByOrder(rrMapping[d])]
    /\ rrFile' = rrMapping'
    /\ pc' = "written"
    /\ UNCHANGED <<species, imported, rawMapping, pokemonNames, pokemonRegionalForms,
                   processedMapping, stats, outputFile, callLog, dexIDsWithoutCanonical,
                   stage1Vars, startVars, toolVars>>

\* The regions stage 3 looks for in the keys of the stage-2 entries
RegionNames == <<<<"A","l","o","l","a">>, <<"G","a","l","a","r">>, <<"H","i","s","u","i">>, <<"P","a","l","d","e","a">>, <<"S","e","v","i","i">>>>

\* Array.from(regionalForms): the regions found in the keys of the forms, in
\* the order in which they are added to the set
regionsOf(forms) ==
    LET hits   == {<<i, r>> \in (DOMAIN forms) \X (DOMAIN RegionNames) :
                      includes(forms[i].key, RegionNames[r])}
        found  == {h[2] : h \in hits}
        first  == [r \in found |->
                      CHOOSE h \in hits : h[2] = r /\ \A g \in hits : g[2] = r => h[1] <= g[1]]
        earlier(q, r) == first[q][1] < first[r][1] \/ (first[q][1] = first[r][1] /\ q < r)
    IN  [k \in 1..Cardinality(found) |->
            RegionNames[CHOOSE r \in found :
                            Cardinality({q \in found : earlier(q, r)}) = k - 1]]

\* Stage 3 reads the stage-2 file: the name of the first entry of each
\* dexID, and the regions found for it
LoadNames ==
    /\ pc = "written"
    /\ pokemonNames' = [d \in {e \in DOMAIN rrFile : Len(rrFile[e]) > 0} |-> rrFile[d][1].name]
    /\ pokemonRegionalForms' =
          [d \in {e \in DOMAIN rrFile : Len(regionsOf(rrFile[e])) > 0} |-> regionsOf(rrFile[d])]
    /\ pc' = "loaded"
    /\ UNCHANGED <<rawMapping, processedMapping, stats, outputFile, callLog,
                   dexIDsWithoutCanonical, stage1Vars, stage2Vars, startVars, toolVars>>

NextImport == ImportEntry \/ SortAndWriteRR \/ LoadNames

SpecImport == InitImport /\ [][NextImport]_vars

(***************************************************************************)
(* The script from its start, on whatever input file it finds              *)
(***************************************************************************)

\* Largest number of forms of the group in the input file
MaxStartForms == 2

\* The dexIDs the input file may hold a group of
StartDexIDs == {25, 201}

\* The output file an earlier run has left
OldOutput == (25 :> <<>>)

\* The stage-2 file when there is one: one entry for dexID 25, of a key
\* that names a region
ReferenceFile ==
    (25 :> <<[ID |-> 2, key |-> <<"K","2","A","l","o","l","a">>, order |-> NullOrder,
              ancestor |-> Null, name |-> <<"N","2">>]>>)

\* fs.existsSync(file)
existsSync(file) == file.exists

\* Variant of parses: any text is taken for JSON
parsesAlways(file) == TRUE

\* JSON.parse(fs.readFileSync(file, 'utf8')) returns a value; it throws otherwise
parses(file) == file.valid

InitStart ==
    /\ \E dexID \in StartDexIDs :
       \E forms \in Groups(dexID, MaxStartForms) :
           inputFile \in {NoFile, BrokenFile, JsonFile(dexID :> forms)}
    /\ outputFile \in {Null, OldOutput}
    /\ rrFile \in {Null, ReferenceFile}
    /\ exitStatus = <<>>
    /\ writes = 0
    /\ rawMapping = EmptyObject
    /\ pokemonNames = EmptyObject
    /\ pokemonRegionalForms = EmptyObject
    /\ processedMapping = EmptyObject
    /\ stats = ZeroStats
    /\ pc = "start"
    /\ callLog = <<>>
    /\ dexIDsWithoutCanonical = Null
    /\ idleStage1
    /\ idleTools
    /\ species = <<>>
    /\ imported = 0
    /\ rrMapping = EmptyObject

\* if (!fs.existsSync(inputFile)) { console.error(...); process.exit(1); }
CheckInput ==
    /\ pc = "start"
    /\ IF existsSync(inputFile)
       THEN pc' = "read" /\ UNCHANGED exitStatus
       ELSE pc' = "exited" /\ exitStatus' = <<1>>
    /\ UNCHANGED <<rawMapping, pokemonNames, pokemonRegionalForms, processedMapping, stats,
                   outputFile, callLog, dexIDsWithoutCanonical, stage1Vars, stage2Vars,
                   inputFile, writes, toolVars>>

\* const rawMapping = JSON.parse(fs.readFileSync(inputFile, 'utf8')): the
\* exception of JSON.parse is not caught, so the process ends with status 1
ReadInput ==
    /\ pc = "read"
    /\ IF parses(inputFile)
       THEN rawMapping' = inputFile.content /\ pc' = "names" /\ UNCHANGED exitStatus
       ELSE pc' = "exited" /\ exitStatus' = <<1>> /\ UNCHANGED rawMapping
    /\ UNCHANGED <<pokemonNames, pokemonRegionalForms, processedMapping, stats,
                   outputFile, callLog, dexIDsWithoutCanonical, stage1Vars, stage2Vars,
                   inputFile, writes, toolVars>>

\* if (fs.existsSync(rrMappingPath)) { ... }: the names and the regions are
\* read from the stage-2 file when there is one
ReadReference ==
    /\ pc = "names"
    /\ IF rrFile = Null
       THEN UNCHANGED <<pokemonNames, pokemonRegionalForms>>
       ELSE /\ pokemonNames' =
                  [d \in {e \in DOMAIN rrFile : Len(rrFile[e]) > 0} |-> rrFile[d][1].name]
            /\ pokemonRegionalForms' =
                  [d \in {e \in DOMAIN rrFile : Len(regionsOf(rrFile[e])) > 0} |->
                      regionsOf(rrFile[d])]
    /\ pc' = "process"
    /\ UNCHANGED <<rawMapping, processedMapping, stats, outputFile, callLog,
                   dexIDsWithoutCanonical, stage1Vars, stage2Vars, startVars, toolVars>>

NextStart == CheckInput \/ ReadInput \/ ReadReference \/ ProcessGroup \/ WriteOutput \/ Report

SpecStart == InitStart /\ [][NextStart]_vars

(***************************************************************************)
(* The sprite splitter (split-moemon-sprites.js)                           *)
(***************************************************************************)

\* Largest number of sprite sheets found by the scan
MaxSheets == 3

\* The keys of OUTPUT_FOLDERS
OutputFolders == {"front", "frontShiny", "back", "backShiny"}

\* The sprite sheets the scan may find: the folder below SPRITESETS_DIR, the
\* file name, and whether sharp can read the file
SheetPool ==
    {[folder |-> <<"G","e","n","0">>, basename |-> <<"a",".","p","n","g">>, readable |-> TRUE],
     [folder |-> <<"G","e","n","1">>, basename |-> <<"a",".","p","n","g">>, readable |-> TRUE],
     [folder |-> <<"G","e","n","2">>, basename |-> <<"a","_","G","e","n","1",".","p","n","g">>, readable |-> TRUE],
     [folder |-> <<"G","e","n","3">>, basename |-> <<"a","_","G","e","n","1","_","1",".","p","n","g">>, readable |-> TRUE],
     [folder |-> <<"G","e","n","1","/","x"," ","y">>, basename |-> <<"a",".","p","n","g">>, readable |-> TRUE],
     [folder |-> <<"G","e","n","2">>, basename |-> <<"a","_","G","e","n","1","-","x","_","y",".","p","n","g">>, readable |-> TRUE],
     [folder |-> <<"G","e","n","5">>, basename |-> <<"a",".","p","n","g">>, readable |-> FALSE]}

\* The path of a sheet below SPRITESETS_DIR
pathOf(sheet) == sheet.folder \o <<"/">> \o sheet.basename

\* The lists of n different sheets, in any order
RECURSIVE SheetLists(_)
SheetLists(n) ==
    IF n = 0 THEN {<<>>}
    ELSE {Append(l, f) : <<l, f>> \in
             {<<l, f>> \in SheetLists(n - 1) \X SheetPool : \A i \in DOMAIN l : l[i] # f}}

\* path.extname(basename)
extname(basename) == substring(basename, Len(nameWithoutExt(basename)))

\* s.replace(/\s+/g, '_'): every run of blanks becomes one underscore
RECURSIVE replaceBlanks(_)
replaceBlanks(s) ==
    IF s = <<>> THEN <<>>
    ELSE IF s[1] # " " THEN <<s[1]>> \o replaceBlanks(Tail(s))
    ELSE IF Len(s) > 1 /\ s[2] = " " THEN replaceBlanks(Tail(s))
    ELSE <<"_">> \o replaceBlanks(Tail(s))

\* relativeFolder.replace(/[\\\/]/g, '-').replace(/\s+/g, '_')
folderPart(relativeFolder) ==
    replaceBlanks([i \in DOMAIN relativeFolder |->
                      IF relativeFolder[i] \in {"/", "\\"} THEN "-" ELSE relativeFolder[i]])

\* The while loop of getUniqueFilename: the first of stem_1, stem_2, ... that
\* the registry does not hold
RECURSIVE countedName(_, _, _, _)
countedName(registry, stem, ext, counter) ==
    LET name == stem \o <<"_">> \o NumToString(counter) \o ext
    IN  IF name \in DOMAIN registry THEN countedName(registry, stem, ext, counter + 1) ELSE name

\* The name made unique with the folder of the sheet, and a counter if needed
uniqueName(registry, basename, folder) ==
    LET stem == nameWithoutExt(basename) \o <<"_">> \o folderPart(folder)
    IN  IF stem \o extname(basename) \in DOMAIN registry
        THEN countedName(registry, stem, extname(basename), 1)
        ELSE stem \o extname(basename)

\* map.set(key, value)
mapSet(map, key, value) ==
    [k \in DOMAIN map \cup {key} |-> IF k = key THEN value ELSE map[k]]

\* Variant of getUniqueFilename: the unique name is not entered in the registry
getUniqueFilenameUnrecorded(registry, basename, folder, originalPath) ==
    IF basename \notin DOMAIN registry
    THEN [name |-> basename, duplicate |-> FALSE,
          registry |-> mapSet(registry, basename, <<originalPath>>)]
    ELSE [name |-> uniqueName(registry, basename, folder), duplicate |-> TRUE,
          registry |-> mapSet(registry, basename, Append(registry[basename], originalPath))]

\* getUniqueFilename(basename, folder, originalPath), with the registry it
\* reads and updates made explicit: the name returned, whether the sheet
\* was counted as a duplicate, and the registry after the call
getUniqueFilename(registry, basename, folder, originalPath) ==
    IF basename \notin DOMAIN registry
    THEN [name |-> basename, duplicate |-> FALSE,
          registry |-> mapSet(registry, basename, <<originalPath>>)]
    ELSE LET unique == uniqueName(registry, basename, folder)
         IN  [name |-> unique, duplicate |-> TRUE,
              registry |-> mapSet(mapSet(registry, basename,
                                         Append(registry[basename], originalPath)),
                                  unique, <<originalPath>>)]

InitSplit ==
    /\ \E n \in 1..MaxSheets : allImages \in SheetLists(n)
    /\ splitDone = 0
    /\ filenameRegistry = EmptyObject
    /\ splitStats = [processed |-> 0, failed |-> 0, duplicates |-> <<>>]
    /\ splitOutput = EmptyObject
    /\ pc = "split"
    /\ idleFill
    /\ idleStage3
    /\ idleStage1
    /\ idleStage2

\* await splitSpriteSheet(imagePath) for the next sheet: a sheet sharp cannot
\* read is counted as failed before a name is asked for; else the four
\* sprites are written under the name getUniqueFilename returns, a file of
\* that name in an output folder being replaced
SplitSheet ==
    /\ pc = "split"
    /\ splitDone < Len(allImages)
    /\ \E sheet \in {allImages[splitDone + 1]} :
          IF ~sheet.readable
          THEN /\ splitStats' = [splitStats EXCEPT !.failed = @ + 1]
               /\ UNCHANGED <<filenameRegistry, splitOutput>>
          ELSE \E got \in {getUniqueFilename(filenameRegistry, sheet.basename, sheet.folder,
                                             pathOf(sheet))} :
               /\ filenameRegistry' = got.registry
               /\ splitOutput' =
                     [key \in DOMAIN splitOutput \cup {<<f, got.name>> : f \in OutputFolders} |->
                         IF key[2] = got.name THEN pathOf(sheet) ELSE splitOutput[key]]
               /\ splitStats' =
                     [splitStats EXCEPT
                         !.processed = @ + 1,
                         !.duplicates =
                             IF got.duplicate
                             THEN Append(@, [original      |-> sheet.basename,
                                             unique        |-> got.name,
                                             path          |-> pathOf(sheet),
                                             conflictsWith |-> filenameRegistry[sheet.basename][1]])
                             ELSE @]
    /\ splitDone' = splitDone + 1
    /\ UNCHANGED <<allImages, pc, rawMapping, pokemonNames, pokemonRegionalForms, processedMapping,
                   stats, outputFile, callLog, dexIDsWithoutCanonical, stage1Vars, stage2Vars,
                   startVars, gapVars>>

\* After the loop the results are printed and the script ends
FinishSplit ==
    /\ pc = "split"
    /\ splitDone = Len(allImages)
    /\ pc' = "done"
    /\ UNCHANGED <<rawMapping, pokemonNames, pokemonRegionalForms, processedMapping, stats,
                   outputFile, callLog, dexIDsWithoutCanonical, stage1Vars, stage2Vars, startVars, toolVars>>

NextSplit == SplitSheet \/ FinishSplit

SpecSplit == InitSplit /\ [][NextSplit]_vars

(***************************************************************************)
(* The gap filler (fill-missing-moemon.js)                                 *)
(***************************************************************************)

\* Largest number of sheets in the new sprite archive
MaxNewSprites == 3

\* Largest number of runs of the gap filler, one after the other
MaxFillRuns == 2

\* const types = ['front', 'front shiny', 'back', 'back shiny']
SpriteTypes == <<"front", "front shiny", "back", "back shiny">>

\* path.join(folder, file), a path below NEW_SPRITE_BASE; the folder of the
\* files of the main folder is ""
join(folder, file) == [folder |-> folder, file |-> file]

\* The sheets the new archive may hold, in the order readdirSync lists
\* them: the folder, the file name, and whether sharp can read the file
NewSpritePool ==
    <<[folder |-> "", file |-> <<"2","5",".","p","n","g">>, readable |-> TRUE],
      [folder |-> "", file |-> <<"2","6","-","A",".","p","n","g">>, readable |-> TRUE],
      [folder |-> "", file |-> <<"2","6",".","p","n","g">>, readable |-> FALSE],
      [folder |-> "", file |-> <<"6","-","M",".","p","n","g">>, readable |-> TRUE],
      [folder |-> "", file |-> <<"6",".","p","n","g">>, readable |-> TRUE],
      [folder |-> "Megas", file |-> <<"6","-","M","X",".","p","n","g">>, readable |-> TRUE],
      [folder |-> "Megas", file |-> <<"6","-","m","-","M","Y",".","p","n","g">>, readable |-> TRUE],
      [folder |-> "Regional Forms", file |-> <<"2","6","-","A",".","p","n","g">>, readable |-> FALSE],
      [folder |-> "Regional Forms", file |-> <<"2","6","-","P",".","p","n","g">>, readable |-> TRUE],
      [folder |-> "Unown", file |-> <<"2","0","1","-","a",".","p","n","g">>, readable |-> TRUE]>>

\* The elements of a set of numbers in ascending order, the order in which
\* Object.keys lists integer keys
sortedKeys(S) ==
    [k \in 1..Cardinality(S) |-> CHOOSE d \in S : Cardinality({e \in S : e < d}) = k - 1]

\* The archives of up to MaxNewSprites sheets
Archives ==
    {[k \in 1..Cardinality(T) |-> NewSpritePool[sortedKeys(T)[k]]] :
        T \in {U \in SUBSET DOMAIN NewSpritePool : Cardinality(U) \in 1..MaxNewSprites}}

\* String.prototype.endsWith
endsWith(s, p) == Len(s) >= Len(p) /\ SubSeq(s, Len(s) - Len(p) + 1, Len(s)) = p

\* The file name without the four characters of ".png"
stemOf(file) == SubSeq(file, 1, Len(file) - 4)

\* /^\d+$/.test(s)
digitsOnly(s) == s # <<>> /\ \A i \in DOMAIN s : IsDigit(s[i])

\* /[a-z]/i.test(c)
isLetter(c) == toLowerChar(c) # c \/ toUpperChar(c) # c

\* The number of letters a string ends with
RECURSIVE trailingLetters(_)
trailingLetters(s) ==
    IF s = <<>> \/ ~isLetter(s[Len(s)]) THEN 0 ELSE 1 + trailingLetters(SubSeq(s, 1, Len(s) - 1))

\* f.endsWith('.png') && /^\d+\.png$/.test(f)
isBaseFile(file) == endsWith(file, <<".","p","n","g">>) /\ digitsOnly(stemOf(file))

\* file.match(/^(\d+)-([A-Z])\.png$/)
specialMatch(file) ==
    LET s  == stemOf(file)
        ok == /\ endsWith(file, <<".","p","n","g">>)
              /\ Len(s) >= 3
              /\ IsUpper(s[Len(s)])
              /\ s[Len(s) - 1] = "-"
              /\ digitsOnly(SubSeq(s, 1, Len(s) - 2))
    IN  IF ok THEN [ok |-> TRUE, dexID |-> parseInt(SubSeq(s, 1, Len(s) - 2)),
                    formType |-> s[Len(s)]]
        ELSE [ok |-> FALSE, dexID |-> 0, formType |-> ""]

\* file.match(/^(\d+)(-[a-z]+)?-(M[XY]?)\.png$/i): the dexID, the variant
\* ('' when there is none) and the mega type as it is written. processGaps
\* applies the same pattern without the ^ to the path of a file the scan
\* has matched; no folder name holds a digit, so the groups are the same
megaMatch(file) ==
    LET s       == stemOf(file)
        n       == Len(s)
        two     == /\ n >= 3
                   /\ s[n - 2] = "-"
                   /\ toUpperChar(s[n - 1]) = "M"
                   /\ toUpperChar(s[n]) \in {"X", "Y"}
        one     == n >= 2 /\ s[n - 1] = "-" /\ toUpperChar(s[n]) = "M"
        typeLen == IF two THEN 2 ELSE IF one THEN 1 ELSE 0
        head    == SubSeq(s, 1, n - typeLen - 1)
        letters == trailingLetters(head)
        digits  == IF letters = 0 THEN head ELSE SubSeq(head, 1, Len(head) - letters - 1)
        ok      == /\ endsWith(file, <<".","p","n","g">>)
                   /\ typeLen > 0
                   /\ letters > 0 => (Len(head) >= letters + 2 /\ head[Len(head) - letters] = "-")
                   /\ digitsOnly(digits)
    IN  IF ok THEN [ok |-> TRUE, dexID |-> parseInt(digits),
                    variant |-> SubSeq(head, Len(digits) + 1, Len(head)),
                    megaType |-> SubSeq(s, n - typeLen + 1, n)]
        ELSE [ok |-> FALSE, dexID |-> 0, variant |-> <<>>, megaType |-> <<>>]

\* file.match(/^(\d+)-([AGHP])\.png$/)
regionalMatch(file) ==
    LET m == specialMatch(file)
    IN  IF m.ok /\ m.formType \in {"A", "G", "H", "P"} THEN m
        ELSE [ok |-> FALSE, dexID |-> 0, formType |-> ""]

\* filename.match(/201-([a-z]+|exclamation|question)\.png$/i): the form
\* letter, or null when the path does not match
unownMatch(path) ==
    LET s       == stemOf(path.file)
        letters == trailingLetters(s)
        head    == SubSeq(s, 1, Len(s) - letters)
    IN  IF endsWith(path.file, <<".","p","n","g">>) /\ letters > 0 /\ endsWith(head, <<"2","0","1","-">>)
        THEN SubSeq(s, Len(s) - letters + 1, Len(s))
        ELSE Null

\* The paths of the sheets of a listing, in its order
pathsOf(sheets) == [i \in DOMAIN sheets |-> join(sheets[i].folder, sheets[i].file)]

\* The properties of the object the assignments obj[code] = path make, in
\* the order of insertion: a property keeps its place when it is assigned again
assigned(assignments) ==
    LET firsts == {i \in DOMAIN assignments :
                      \A j \in 1..(i - 1) : assignments[j].code # assignments[i].code}
        last(code) == CHOOSE i \in DOMAIN assignments :
                          /\ assignments[i].code = code
                          /\ \A j \in DOMAIN assignments : assignments[j].code = code => j <= i
    IN  [k \in 1..Cardinality(firsts) |->
            LET i == sortedKeys(firsts)[k]
            IN  [code |-> assignments[i].code, path |-> assignments[last(assignments[i].code)].path]]

\* scanNewSprites(): newSprites after the scan of an archive
scanNewSprites(found) ==
    LET inMain(f)        == f.folder = ""
        isBase(f)        == inMain(f) /\ isBaseFile(f.file)
        isMainMega(f)    == inMain(f) /\ specialMatch(f.file).ok /\ specialMatch(f.file).formType = "M"
        isMainRegion(f)  == inMain(f) /\ regionalMatch(f.file).ok
        isMega(f)        == f.folder = "Megas" /\ megaMatch(f.file).ok
        isRegion(f)      == f.folder = "Regional Forms" /\ regionalMatch(f.file).ok
        isUnown(f)       == f.folder = "Unown" /\ endsWith(f.file, <<".","p","n","g">>)
        baseFiles        == SelectSeq(found, isBase)
        megaFiles        == SelectSeq(found, isMainMega) \o SelectSeq(found, isMega)
        regionFiles      == SelectSeq(found, isMainRegion) \o SelectSeq(found, isRegion)
        baseID(f)        == parseInt(stemOf(f.file))
        megaID(f)        == IF inMain(f) THEN specialMatch(f.file).dexID ELSE megaMatch(f.file).dexID
        regionID(f)      == regionalMatch(f.file).dexID
        lastBase(d)      == CHOOSE i \in DOMAIN baseFiles :
                                /\ baseID(baseFiles[i]) = d
                                /\ \A j \in DOMAIN baseFiles : baseID(baseFiles[j]) = d => j <= i
    IN  [base     |-> [d \in {baseID(baseFiles[i]) : i \in DOMAIN baseFiles} |->
                          join("", baseFiles[lastBase(d)].file)],
         mega     |-> [d \in {megaID(megaFiles[i]) : i \in DOMAIN megaFiles} |->
                          LET ofDex(f) == megaID(f) = d
                          IN  pathsOf(SelectSeq(megaFiles, ofDex))],
         regional |-> [d \in {regionID(regionFiles[i]) : i \in DOMAIN regionFiles} |->
                          LET ofDex(f) == regionID(f) = d
                              files    == SelectSeq(regionFiles, ofDex)
                          IN  assigned([i \in DOMAIN files |->
                                           [code |-> regionalMatch(files[i].file).formType,
                                            path |-> join(files[i].folder, files[i].file)]])],
         unown    |-> pathsOf(SelectSeq(found, isUnown))]

\* The test of identifyGaps for a base form: a name of no mega and of none
\* of three regions
isBaseFormName(name) ==
    /\ ~includes(name, <<"-","M","e","g","a">>)
    /\ ~includes(name, <<"-","A","l","o","l","a">>)
    /\ ~includes(name, <<"-","G","a","l","a","r">>)
    /\ ~includes(name, <<"-","H","i","s","u","i">>)

\* The region a region code of the new archive stands for
regionNameOf(regionCode) ==
    CASE regionCode = "A" -> <<"A","l","o","l","a">>
      [] regionCode = "G" -> <<"G","a","l","a","r">>
      [] regionCode = "H" -> <<"H","i","s","u","i">>
      [] regionCode = "P" -> <<"S","e","v","i","i">>

\* existing.some(f => f.name.includes(text)), false when there is no entry
someNameIncludes(existingMapping, dexID, text) ==
    /\ dexID \in DOMAIN existingMapping
    /\ \E i \in DOMAIN existingMapping[dexID] : includes(existingMapping[dexID][i].name, text)

\* The lists of a list, one after the other
RECURSIVE flat(_)
flat(lists) == IF lists = <<>> THEN <<>> ELSE lists[1] \o flat(Tail(lists))

\* identifyGaps(existingMapping): the gaps pushed for the sprites of the scan
identifyGaps(existingMapping, sprites) ==
    LET noEntry(d)   == d \notin DOMAIN existingMapping \/ Len(existingMapping[d]) = 0
        hasBase(d)   == \E i \in DOMAIN existingMapping[d] :
                            isBaseFormName(existingMapping[d][i].name)
        baseGap(d)   == noEntry(d) \/ ~hasBase(d)
        megaGap(d)   == ~someNameIncludes(existingMapping, d, <<"-","M","e","g","a">>)
        baseIDs      == SelectSeq(sortedKeys(DOMAIN sprites.base), baseGap)
        megaIDs      == SelectSeq(sortedKeys(DOMAIN sprites.mega), megaGap)
        regionIDs    == sortedKeys(DOMAIN sprites.regional)
        regionGaps(d) ==
            LET isGap(r) == ~someNameIncludes(existingMapping, d,
                                              <<"-">> \o regionNameOf(r.code))
                missing  == SelectSeq(sprites.regional[d], isGap)
            IN  [i \in DOMAIN missing |->
                    [dexID |-> d, region |-> regionNameOf(missing[i].code),
                     regionCode |-> missing[i].code, available |-> missing[i].path]]
    IN  [missingBase |->
            [i \in DOMAIN baseIDs |->
                [dexID |-> baseIDs[i],
                 reason |-> IF noEntry(baseIDs[i]) THEN "No entry in mapping"
                            ELSE "Has forms but no base",
                 available |-> sprites.base[baseIDs[i]]]],
         missingMega |->
            [i \in DOMAIN megaIDs |->
                [dexID |-> megaIDs[i], available |-> sprites.mega[megaIDs[i]]]],
         missingRegional |-> flat([i \in DOMAIN regionIDs |-> regionGaps(regionIDs[i])])]

\* The key processGaps gives a mega sheet: by the mega type as it is
\* written, after the variant when there is one
megaKey(m) ==
    LET key == IF m.megaType = <<"M","X">> THEN <<"(","m","x",")">>
               ELSE IF m.megaType = <<"M","Y">> THEN <<"(","m","y",")">>
               ELSE <<"(","m",")">>
    IN  IF m.variant # <<>> THEN m.variant \o key ELSE key

\* The key processGaps gives a region
regionKey(region) ==
    CASE region = <<"A","l","o","l","a">> -> <<"(","r","a",")">>
      [] region = <<"G","a","l","a","r">> -> <<"(","r","g",")">>
      [] region = <<"H","i","s","u","i">> -> <<"(","r","h",")">>
      [] region = <<"S","e","v","i","i">> -> <<"(","r",")">>

\* processGaps(): the calls of splitSpriteSheet it makes, in order, each
\* with the gap it is made for
processGaps(found, sprites) ==
    LET baseCalls ==
            [i \in DOMAIN found.missingBase |->
                [inputPath |-> found.missingBase[i].available,
                 dexID |-> found.missingBase[i].dexID, key |-> <<>>,
                 gap |-> "base", region |-> <<>>]]
        megaCalls(gap) ==
            LET matches(path) == megaMatch(path.file).ok
                sheets == SelectSeq(gap.available, matches)
            IN  [i \in DOMAIN sheets |->
                    [inputPath |-> sheets[i], dexID |-> gap.dexID,
                     key |-> megaKey(megaMatch(sheets[i].file)),
                     gap |-> "mega", region |-> <<>>]]
        regionCalls ==
            [i \in DOMAIN found.missingRegional |->
                [inputPath |-> found.missingRegional[i].available,
                 dexID |-> found.missingRegional[i].dexID,
                 key |-> regionKey(found.missingRegional[i].region),
                 gap |-> "regional", region |-> found.missingRegional[i].region]]
        matchesUnown(path) == unownMatch(path) # Null
        unownSheets == SelectSeq(sprites.unown, matchesUnown)
        unownCalls ==
            [i \in DOMAIN unownSheets |->
                [inputPath |-> unownSheets[i], dexID |-> 201,
                 key |-> <<"(">> \o unownMatch(unownSheets[i]) \o <<")">>,
                 gap |-> "unown", region |-> <<>>]]
    IN  baseCalls \o flat([i \in DOMAIN found.missingMega |-> megaCalls(found.missingMega[i])])
                  \o regionCalls \o unownCalls

\* `${String(dexID).padStart(4, '0')}${key}.png`
outputFilename(dexID, key) == Pad4(dexID) \o key \o <<".","p","n","g">>

\* The four output paths of a sheet, in the order of the types
outputPaths(dexID, key) ==
    [i \in DOMAIN SpriteTypes |-> <<SpriteTypes[i], outputFilename(dexID, key)>>]

\* Variant of splitSpriteSheet: a file is written whether it exists or not
splitSpriteSheetOverwriting(dir, done, readable, inputPath, dexID, key) ==
    IF ~readable THEN [dir |-> dir, processed |-> done, outputs |-> <<>>]
    ELSE LET paths == outputPaths(dexID, key)
             cut   == {paths[i] : i \in DOMAIN paths}
         IN  [dir       |-> [k \in DOMAIN dir \cup cut |-> IF k \in cut THEN inputPath ELSE dir[k]],
              processed |-> [done EXCEPT !.split = @ \o paths],
              outputs   |-> paths]

\* splitSpriteSheet(inputPath, dexID, key), with the output directory and
\* processed made explicit: when sharp cannot read the sheet nothing is
\* written or recorded; else every type whose file exists is skipped, and
\* the file of every other type is written
splitSpriteSheet(dir, done, readable, inputPath, dexID, key) ==
    IF ~readable THEN [dir |-> dir, processed |-> done, outputs |-> <<>>]
    ELSE LET exists(path) == path \in DOMAIN dir
             absent(path) == path \notin DOMAIN dir
             present      == SelectSeq(outputPaths(dexID, key), exists)
             written      == SelectSeq(outputPaths(dexID, key), absent)
             cut          == {written[i] : i \in DOMAIN written}
         IN  [dir       |-> [k \in DOMAIN dir \cup cut |-> IF k \in cut THEN inputPath ELSE dir[k]],
              processed |-> [split |-> done.split \o written, skipped |-> done.skipped \o present],
              outputs   |-> written]

\* The sprite from the first sprite sets, as the content of a file
OldSprite == join("moemon-spritesets", <<>>)

\* The sprite files the output directory may hold before the gap filler
\* runs: none, or the files of one sprite, of all types or of one
OldSprites ==
    LET all(name) == [k \in {<<SpriteTypes[i], name>> : i \in DOMAIN SpriteTypes} |-> OldSprite]
    IN  {EmptyObject,
         all(<<"0","0","2","5",".","p","n","g">>),
         all(<<"0","0","0","6","(","m",")",".","p","n","g">>),
         all(<<"0","2","0","1","(","a",")",".","p","n","g">>),
         all(<<"0","0","2","6","(","r",")",".","p","n","g">>),
         (<<"back", <<"0","0","0","6","(","m","x",")",".","p","n","g">>>> :> OldSprite)}

\* The stage-2 files explored: none, or the entry of dexID 26 with a key
\* that names one region
FillReferences ==
    {Null,
     (26 :> <<[ID |-> 1, key |-> <<"K","1","A","l","o","l","a">>, order |-> NullOrder, ancestor |-> Null, name |-> <<"N","1">>]>>),
     (26 :> <<[ID |-> 1, key |-> <<"K","1","S","e","v","i","i">>, order |-> NullOrder, ancestor |-> Null, name |-> <<"N","1">>]>>)}

\* fs.readdirSync(inputDir) of stage 1 for a folder of the output
\* directory. The order is the file system's; the names are listed in the
\* order of localeCompare, the groups being sorted by key afterwards
readdirSync(dir, type) ==
    LET names == {k[2] : k \in {q \in DOMAIN dir : q[1] = type}}
    IN  [n \in 1..Cardinality(names) |->
            CHOOSE f \in names :
                Cardinality({g \in names : localeCompare(g, f) < 0}) = n - 1]

\* The groups stage 1 makes of a list of files, before they are sorted
RECURSIVE groupsOf(_)
groupsOf(files) ==
    IF files = <<>> THEN EmptyObject
    ELSE LET last == files[Len(files)]
             rest == groupsOf(SubSeq(files, 1, Len(files) - 1))
         IN  IF idWidth(last) = 0 THEN rest ELSE pushEntry(rest, entryOf(last))

\* The names and the regions stage 3 reads from the stage-2 file
namesIn(rr) ==
    IF rr = Null THEN EmptyObject
    ELSE [d \in {e \in DOMAIN rr : Len(rr[e]) > 0} |-> rr[d][1].name]

regionalFormsIn(rr) ==
    IF rr = Null THEN EmptyObject
    ELSE [d \in {e \in DOMAIN rr : Len(regionsOf(rr[e])) > 0} |-> regionsOf(rr[d])]

\* The processed mapping stages 1 and 3 write for the sprites of the
\* output directory
resolved(dir, rr) ==
    LET groups == groupsOf(readdirSync(dir, "front"))
    IN  [d \in DOMAIN groups |->
            processDexGroup(d, sortByKey(groups[d]), Lookup(namesIn(rr), d),
                            regionalFormsIn(rr), ZeroStats).forms]

\* The state in which the gap filler is started: an archive of new sheets,
\* an output directory, and the processed mapping the pipeline has written
\* for that directory
InitFill ==
    /\ archive \in Archives
    /\ spriteDir \in OldSprites
    /\ rrFile \in FillReferences
    /\ outputFile = resolved(spriteDir, rrFile)
    /\ newSprites = NoSprites
    /\ gaps = NoGaps
    /\ gapDone = 0
    /\ processed = NothingProcessed
    /\ fillRun = 1
    /\ pc = "scan"
    /\ rawMapping = EmptyObject
    /\ pokemonNames = EmptyObject
    /\ pokemonRegionalForms = EmptyObject
    /\ processedMapping = EmptyObject
    /\ stats = ZeroStats
    /\ callLog = <<>>
    /\ dexIDsWithoutCanonical = Null
    /\ inputFile = NoFile
    /\ exitStatus = <<>>
    /\ writes = 0
    /\ idleStage1
    /\ species = <<>>
    /\ imported = 0
    /\ rrMapping = EmptyObject
    /\ allImages = <<>>
    /\ splitDone = 0
    /\ filenameRegistry = EmptyObject
    /\ splitStats = [processed |-> 0, failed |-> 0, duplicates |-> <<>>]
    /\ splitOutput = EmptyObject

\* scanNewSprites() in main
ScanNewSprites ==
    /\ pc = "scan"
    /\ newSprites' = scanNewSprites(archive)
    /\ pc' = "gaps"
    /\ UNCHANGED <<archive, gaps, gapDone, spriteDir, processed, fillRun, rawMapping,
                   pokemonNames, pokemonRegionalForms, processedMapping, stats, outputFile,
                   callLog, dexIDsWithoutCanonical, stage1Vars, stage2Vars, startVars, splitVars>>

\* identifyGaps(loadExistingMapping()) in main: the existing mapping is the
\* processed mapping stage 3 has written
IdentifyGaps ==
    /\ pc = "gaps"
    /\ gaps' = identifyGaps(outputFile, newSprites)
    /\ pc' = "fill"
    /\ UNCHANGED <<archive, newSprites, gapDone, spriteDir, processed, fillRun, rawMapping,
                   pokemonNames, pokemonRegionalForms, processedMapping, stats, outputFile,
                   callLog, dexIDsWithoutCanonical, stage1Vars, stage2Vars, startVars, splitVars>>

\* Whether sharp can read the sheet at a path of the archive
readableAt(path) ==
    \E i \in DOMAIN archive :
        archive[i].folder = path.folder /\ archive[i].file = path.file /\ archive[i].readable

\* The calls of splitSpriteSheet of this run
fillCalls == processGaps(gaps, newSprites)

\* The next await splitSpriteSheet(...) of processGaps
FillGap ==
    /\ pc = "fill"
    /\ gapDone < Len(fillCalls)
    /\ \E call \in {fillCalls[gapDone + 1]} :
       \E result \in {splitSpriteSheet(spriteDir, processed, readableAt(call.inputPath),
                                       call.inputPath, call.dexID, call.key)} :
            /\ spriteDir' = result.dir
            /\ processed' = result.processed
    /\ gapDone' = gapDone + 1
    /\ UNCHANGED <<archive, newSprites, gaps, fillRun, pc, rawMapping,
                   pokemonNames, pokemonRegionalForms, processedMapping, stats, outputFile,
                   callLog, dexIDsWithoutCanonical, stage1Vars, stage2Vars, startVars, splitVars>>

\* After processGaps the summary is logged and the script ends
FinishFill ==
    /\ pc = "fill"
    /\ gapDone = Len(fillCalls)
    /\ pc' = "filled"
    /\ UNCHANGED <<archive, newSprites, gaps, gapDone, spriteDir, processed, fillRun, rawMapping,
                   pokemonNames, pokemonRegionalForms, processedMapping, stats, outputFile,
                   callLog, dexIDsWithoutCanonical, stage1Vars, stage2Vars, startVars, splitVars>>

\* The script is started again, on the same archive and the same mapping
FillAgain ==
    /\ pc = "filled"
    /\ fillRun < MaxFillRuns
    /\ fillRun' = fillRun + 1
    /\ newSprites' = NoSprites
    /\ gaps' = NoGaps
    /\ gapDone' = 0
    /\ processed' = NothingProcessed
    /\ pc' = "scan"
    /\ UNCHANGED <<archive, spriteDir, rawMapping,
                   pokemonNames, pokemonRegionalForms, processedMapping, stats, outputFile,
                   callLog, dexIDsWithoutCanonical, stage1Vars, stage2Vars, startVars, splitVars>>

\* Stage 1 is started on the folder "front" of the output directory
RunExtractor ==
    /\ pc = "filled"
    /\ imageFiles' = readdirSync(spriteDir, "front")
    /\ pc' = "extract"
    /\ UNCHANGED <<handled, dexMapping, warnings, extractStats, mappingFile, rawMapping,
                   pokemonNames, pokemonRegionalForms, processedMapping, stats, outputFile,
                   callLog, dexIDsWithoutCanonical, stage2Vars, startVars, toolVars>>

\* Stage 3 is started on the file stage 1 has written
RunResolver ==
    /\ pc = "done"
    /\ exitStatus = <<>>
    /\ fillRun > 0
    /\ inputFile' = JsonFile(mappingFile)
    /\ pc' = "start"
    /\ UNCHANGED <<rawMapping, pokemonNames, pokemonRegionalForms, processedMapping, stats,
                   outputFile, callLog, dexIDsWithoutCanonical, stage1Vars, stage2Vars,
                   exitStatus, writes, toolVars>>

NextFill ==
    \/ ScanNewSprites \/ IdentifyGaps \/ FillGap \/ FinishFill \/ FillAgain
    \/ RunExtractor \/ HandleFile \/ SortAndWrite
    \/ RunResolver \/ CheckInput \/ ReadInput \/ ReadReference \/ ProcessGroup \/ WriteOutput
    \/ Report

SpecFill == InitFill /\ [][NextFill]_vars

(***************************************************************************)
(* Properties                                                              *)
(***************************************************************************)

\* The groups processDexGroup has returned a list for
Processed == DOMAIN processedMapping

\* The base name of a group: the reference name, or Dex-<dexID> without one
BaseNameOf(dexID) ==
    IF Truthy(Lookup(pokemonNames, dexID)) THEN pokemonNames[dexID]
    ELSE <<"D","e","x","-">> \o NumToString(dexID)

\* The forms of a group that survive the pre-filter, and their parsed keys
KeptInput(dexID) == preFilter(dexID, rawMapping[dexID])

ParsedInput(dexID) == parseForms(KeptInput(dexID))

Elements(s) == {s[i] : i \in DOMAIN s}

Filenames(s) == {s[i].filename : i \in DOMAIN s}

EndsWith(s, p) == Len(s) >= Len(p) /\ SubSeq(s, Len(s) - Len(p) + 1, Len(s)) = p

HasMegaSuffix(name) ==
    EndsWith(name, <<"-","M","e","g","a">>) \/ EndsWith(name, <<"-","M","e","g","a","-","X">>) \/ EndsWith(name, <<"-","M","e","g","a","-","Y">>)

\* The records of a returned list that are flagged canonical
Canonicals(dexID) ==
    {r \in Elements(processedMapping[dexID]) : r.isCanonical}

\* The main canonical records: flagged canonical and carrying the bare base name
Mains(dexID) == {r \in Canonicals(dexID) : r.name = BaseNameOf(dexID)}

\* C1: processDexGroup returns exactly one record for each form that
\* survives the pre-filter, with that form's filename, key and dexID, and
\* the returned list is as long as the pre-filtered list.
C1_OneRecordPerForm ==
    \A d \in Processed :
        LET kept == KeptInput(d)
            out  == processedMapping[d]
        IN  /\ Len(out) = Len(kept)
            /\ \A i \in DOMAIN kept :
                   Cardinality({j \in DOMAIN out :
                       /\ out[j].filename = kept[i].filename
                       /\ out[j].key = kept[i].key
                       /\ out[j].dexID = kept[i].dexID}) = 1

\* A group that lost a form to the pre-filter and kept a canonical form and others
C1_Witness ==
    \E d \in Processed :
        /\ Len(KeptInput(d)) < Len(rawMapping[d])
        /\ Len(processedMapping[d]) >= 3
        /\ Canonicals(d) # {}

\* C2: a returned list holds at most one record that is flagged canonical
\* and whose name has none of the suffixes -Mega, -Mega-X, -Mega-Y.
C2_AtMostOneMainCanonical ==
    \A d \in Processed :
        Cardinality({j \in DOMAIN processedMapping[d] :
            /\ processedMapping[d][j].isCanonical
            /\ ~HasMegaSuffix(processedMapping[d][j].name)}) <= 1

\* A group with a main canonical, a mega canonical, and two files of one key
C2_Witness ==
    \E d \in Processed :
        /\ \E r \in Canonicals(d) : ~HasMegaSuffix(r.name)
        /\ \E r \in Canonicals(d) : HasMegaSuffix(r.name)
        /\ \E i, j \in DOMAIN rawMapping[d] :
               i # j /\ rawMapping[d][i].key = rawMapping[d][j].key

\* A parsed form carries the override of the dexID (prefix or key)
CarriesOverride(dexID, f) == overrideForm(dexID, <<f>>) # NoForm

\* The files the main canonical must come from: the holders of the override,
\* else the (fem) forms, else the base forms, else the plain forms
CanonicalSource(dexID) ==
    LET parsed    == ParsedInput(dexID)
        overrides == {f \in Elements(parsed) : CarriesOverride(dexID, f)}
    IN  IF overrides # {} THEN {f.filename : f \in overrides}
        ELSE IF femForms(parsed) # <<>> THEN Filenames(femForms(parsed))
        ELSE IF baseForms(parsed) # <<>> THEN Filenames(baseForms(parsed))
        ELSE Filenames(plainNoMiddleForms(parsed))

AfterPrefix(key) == substring(key, prefixMatch(key))

\* Length of the run of digits a string ends with
RECURSIVE TrailingDigits(_)
TrailingDigits(s) ==
    IF s # <<>> /\ IsDigit(s[Len(s)]) THEN 1 + TrailingDigits(SubSeq(s, 1, Len(s) - 1)) ELSE 0

\* The run of digits a key ends with
TrailingDigitText(key) ==
    SubSeq(key, Len(key) - TrailingDigits(key) + 1, Len(key))

\* The version of a key as its trailing digits read as a decimal number, 0 without any
TrailingVersion(key) == DigitsValue(TrailingDigitText(key))

\* The middle of a key when its version suffix is the whole run of trailing
\* digits together with a dash directly in front of it
MiddleBeforeDigits(key) ==
    LET rest == AfterPrefix(key)
        m    == SubSeq(rest, 1, Len(rest) - TrailingDigits(rest))
    IN  IF TrailingDigits(rest) > 0 /\ m # <<>> /\ m[Len(m)] = "-"
        THEN SubSeq(m, 1, Len(m) - 1) ELSE m

\* The versioned bucket of a key when its version is its trailing digits
VersionedBucket(dexID, key) ==
    LET prefix == lowerPrefix([parsed |-> parseKey(key)])
        middle == MiddleBeforeDigits(key)
    IN  CASE prefix = <<"f","e","m">> -> "fem"
          [] prefix = <<"m">> /\ dexID # 201 -> "mega"
          [] prefix = <<"m","x">> -> "megaX"
          [] prefix = <<"m","y">> -> "megaY"
          [] prefix = Null /\ startsWithBase(middle) -> "base"
          [] prefix = Null /\ middle \in {<<>>, <<"-">>} -> "plain"
          [] OTHER -> "none"

\* C4: in the bucket that supplies a canonical form, no entry has a greater
\* version than the chosen one, the version of a key being its trailing
\* digits read as a decimal number (0 without trailing digits).
C4_HighestVersionIsCanonical ==
    \A d \in Processed :
        (\A f \in Elements(ParsedInput(d)) : ~CarriesOverride(d, f)) =>
            \A c \in Canonicals(d) : \A r \in Elements(processedMapping[d]) :
                /\ VersionedBucket(d, c.key) # "none"
                /\ VersionedBucket(d, r.key) = VersionedBucket(d, c.key)
                => TrailingVersion(r.key) <= TrailingVersion(c.key)

\* C5: parseKey splits a key into prefix, middle and version: the parts put
\* together again give the key, and the version is null for a key that does
\* not end in a digit and else the whole run of trailing digits, with or
\* without the dash in front of it.
C5_ParseKeySplitsKey ==
    \A d \in Processed : \A f \in Elements(ParsedInput(d)) :
        LET p    == f.parsed
            head == IF p.prefix = Null THEN <<>> ELSE <<"(">> \o p.prefix \o <<")">>
            tail == IF p.version = Null THEN <<>> ELSE p.version
        IN  /\ f.key = head \o p.middle \o tail
            /\ (p.prefix = Null) = (prefixMatch(f.key) = 0)
            /\ IF TrailingDigits(f.key) = 0 THEN p.version = Null
               ELSE /\ p.version # Null
                    /\ stripDash(p.version) = TrailingDigitText(f.key)

\* The forms of a group outside its three mega buckets
WithoutMega(dexID) ==
    LET notMega(f) ==
            LET prefix == lowerPrefix([parsed |-> parseKey(f.key)])
            IN  ~(prefix = <<"m">> /\ dexID # 201) /\ prefix # <<"m","x">> /\ prefix # <<"m","y">>
    IN  SelectSeq(rawMapping[dexID], notMega)

\* In a returned list, exactly one entry of the bucket is flagged canonical:
\* one of highest version, named with the base name and the suffix
BucketHasOneCanonical(dexID, bucket, suffix) ==
    bucket # <<>> =>
        LET flagged == {r \in Canonicals(dexID) : r.filename \in Filenames(bucket)}
        IN  /\ Cardinality(flagged) = 1
            /\ \A r \in flagged :
                  /\ r.name = BaseNameOf(dexID) \o suffix
                  /\ \A f \in Elements(bucket) :
                        versionNumber(f.parsed.version, <<"0">>)
                            <= versionNumber(parseKey(r.key).version, <<"0">>)

C7_ZeroOrOneCanonical ==
    \A d \in Processed :
        Cardinality({j \in DOMAIN processedMapping[d] : processedMapping[d][j].isCanonical}) <= 1

\* C7 amended: a group has at most four records flagged canonical, at most
\* one under each of the names base name, base name + -Mega, + -Mega-X, + -Mega-Y.
C7_AtMostOneCanonicalPerName ==
    \A d \in Processed :
        LET out     == processedMapping[d]
            flagged == {j \in DOMAIN out : out[j].isCanonical}
        IN  /\ Cardinality(flagged) <= 4
            /\ \A j \in flagged :
                   out[j].name \in {BaseNameOf(d), BaseNameOf(d) \o <<"-","M","e","g","a">>,
                                    BaseNameOf(d) \o <<"-","M","e","g","a","-","X">>, BaseNameOf(d) \o <<"-","M","e","g","a","-","Y">>}
            /\ \A j, k \in flagged : j # k => out[j].name # out[k].name

\* A group with three canonical records, in which two files have one key
C7_Witness ==
    \E d \in Processed :
        /\ Cardinality(Canonicals(d)) >= 3
        /\ \E i, j \in DOMAIN rawMapping[d] :
               i # j /\ rawMapping[d][i].key = rawMapping[d][j].key

\* a does not sort after b when letter case is ignored
CaseInsensitiveLeq(a, b) ==
    CompareSeq([i \in DOMAIN a |-> PrimaryWeight(toLowerChar(a[i]))],
               [i \in DOMAIN b |-> PrimaryWeight(toLowerChar(b[i]))]) <= 0

\* C8: in a returned list the canonical records precede the others, the
\* main canonical is the first element, and the other records are in
\* ascending case-insensitive order of their names.
C8_OutputOrder ==
    \A d \in Processed :
        LET out == processedMapping[d]
        IN  /\ \A i, j \in DOMAIN out :
                   out[i].isCanonical /\ ~out[j].isCanonical => i < j
            /\ \A i \in DOMAIN out : out[i] \in Mains(d) => i = 1
            /\ \A i, j \in DOMAIN out :
                   ~out[i].isCanonical /\ ~out[j].isCanonical /\ i < j
                   => CaseInsensitiveLeq(out[i].name, out[j].name)

\* A group with a main and a mega canonical, and a record that is not
\* canonical whose name sorts before the mega canonical's
C8_Witness ==
    \E d \in Processed :
        LET out == processedMapping[d]
        IN  /\ Mains(d) # {}
            /\ \E i, j \in DOMAIN out :
                   /\ out[i].isCanonical /\ HasMegaSuffix(out[i].name)
                   /\ ~out[j].isCanonical
                   /\ localeCompare(out[j].name, out[i].name) < 0

\* C9: no two records of a group have the same name.
C9_NamesUnique ==
    \A d \in Processed :
        \A i, j \in DOMAIN processedMapping[d] :
            i # j => processedMapping[d][i].name # processedMapping[d][j].name

\* No canonical form is selected for a group: no main and no mega canonical
NoCanonicalSelected(dexID) ==
    LET parsed == ParsedInput(dexID)
    IN  /\ canonicalForm(dexID, parsed).form = NoForm
        /\ canonicalMega(dexID, parsed) = NoForm
        /\ canonicalMegaX(parsed) = NoForm
        /\ canonicalMegaY(parsed) = NoForm

\* C11: a group for which no canonical form is selected still gets one
\* record per pre-filtered form, none of them canonical; it is written to
\* the output and listed in the report of dexIDs without canonical forms,
\* and the run ends with every group processed.
C11_NoCanonicalIsNoError ==
    /\ \A d \in Processed :
          NoCanonicalSelected(d) =>
            /\ Len(processedMapping[d]) = Len(KeptInput(d))
            /\ \A i \in DOMAIN processedMapping[d] : ~processedMapping[d][i].isCanonical
            /\ pc \in {"report", "done"} => /\ d \in DOMAIN outputFile
                                            /\ outputFile[d] = processedMapping[d]
            /\ pc = "done" =>
                  \E k \in DOMAIN dexIDsWithoutCanonical :
                      /\ dexIDsWithoutCanonical[k].dexID = d
                      /\ dexIDsWithoutCanonical[k].formCount = Len(processedMapping[d])
    /\ pc \in {"report", "done"} => DOMAIN processedMapping = DOMAIN rawMapping

\* A finished run whose first group has two forms and no canonical form and
\* whose second group has a canonical form
C11_Witness ==
    /\ pc = "done"
    /\ NoCanonicalSelected(201)
    /\ Len(processedMapping[201]) = 2
    /\ Canonicals(771) # {}
    /\ Len(dexIDsWithoutCanonical) = 1

\* The suffix of the versioned siblings of a bucket
SiblingSuffix(bucket) ==
    CASE bucket = "mega" -> <<"-","M","e","g","a">>
      [] bucket = "megaX" -> <<"-","M","e","g","a","-","X">>
      [] bucket = "megaY" -> <<"-","M","e","g","a","-","Y">>
      [] OTHER -> <<>>

\* The number a versioned sibling is given: the version of its key, 1 without one
SiblingNumber(key) == IF TrailingDigits(key) = 0 THEN 1 ELSE TrailingVersion(key)

\* The main canonical of a group is a (fem) form
CanonicalIsGendered(dexID) ==
    \E r \in Mains(dexID) : VersionedBucket(dexID, r.key) = "fem"

\* C12: a record of a versioned bucket that is not canonical is named base
\* name + bucket suffix + -v{version}, the version being the number the key
\* ends with, or 1 without one; a (fem) record only when the canonical is
\* a (fem) form.
C12_VersionedSiblingNames ==
    \A d \in Processed : \A r \in Elements(processedMapping[d]) :
        /\ ~r.isCanonical
        /\ \/ VersionedBucket(d, r.key) \in {"plain", "base", "mega", "megaX", "megaY"}
           \/ VersionedBucket(d, r.key) = "fem" /\ CanonicalIsGendered(d)
        => r.name = BaseNameOf(d) \o SiblingSuffix(VersionedBucket(d, r.key))
                        \o <<"-","v">> \o NumToString(SiblingNumber(r.key))

\* C13: for dexID 201 the form of the file 201m.png is not in the mega
\* bucket, is not a mega canonical and is named base name + -M; for every
\* other dexID a form with the prefix m is in the mega bucket.
C13_UnownLetterM ==
    \A d \in Processed :
        /\ \A r \in Elements(processedMapping[d]) :
              r.filename = <<"2","0","1","m",".","p","n","g">> =>
                  /\ d = 201
                  /\ r.filename \notin Filenames(megaForms(d, ParsedInput(d)))
                  /\ ~(r.isCanonical /\ HasMegaSuffix(r.name))
                  /\ r.name = BaseNameOf(d) \o <<"-","M">>
        /\ d # 201 =>
              \A f \in Elements(ParsedInput(d)) :
                  lowerPrefix(f) = <<"m">> => f.filename \in Filenames(megaForms(d, ParsedInput(d)))

\* The lower-case prefix of a key, Null without one
PrefixOf(key) == lowerPrefix([parsed |-> parseKey(key)])

\* The middle content of a key is trivial: empty, a bare dash, or base...
TrivialMiddle(key) ==
    \/ parseKey(key).middle \in {<<>>, <<"-">>}
    \/ startsWithBase(parseKey(key).middle)

\* C14: a non-canonical form with the prefix r, on a dexID without a rule
\* of its own for r, is named base name + -<region> when the regional
\* table lists exactly one region for the dexID, and base name + -R when
\* it lists none or several.
C14_RegionalPrefix ==
    \A d \in Processed : \A r \in Elements(processedMapping[d]) :
        /\ ~r.isCanonical
        /\ PrefixOf(r.key) = <<"r">>
        /\ specialSuffix(<<"r">>, d) = Null
        /\ TrivialMiddle(r.key)
        => r.name = BaseNameOf(d) \o
                (IF d \in DOMAIN pokemonRegionalForms /\ Len(pokemonRegionalForms[d]) = 1
                 THEN <<"-">> \o pokemonRegionalForms[d][1]
                 ELSE <<"-","R">>)

\* A string without its leading dashes and underscores
RECURSIVE Stripped(_)
Stripped(s) == IF s # <<>> /\ s[1] \in {"-", "_"} THEN Stripped(Tail(s)) ELSE s

\* The prefix of a key has no rule of its own: no identifier-specific rule,
\* and it is no gender, mega or regional token
GenericPrefix(dexID, key) ==
    /\ PrefixOf(key) # Null
    /\ PrefixOf(key) \notin {<<"f","e","m">>, <<"m","a","s","c">>, <<"m">>, <<"m","x">>, <<"m","y">>, <<"r">>, <<"r","a">>, <<"r","g">>, <<"r","h">>, <<"r","p">>, <<"r","s">>}
    /\ specialSuffix(PrefixOf(key), dexID) = Null

Redundant(dexID, key) ==
    \/ \E i \in 1..Len(key) : \E j \in i..Len(key) :
          toLowerCase(SubSeq(key, i, j)) = <<"(","a","l","l",")">>
    \/ dexID = 666 /\ \E i \in 1..Len(key) : \E j \in i..Len(key) : SubSeq(key, i, j) = <<"G","e","n","6">>

\* C16: no record of the output has a key containing "(all)" in any letter
\* case, and none of group 666 a key containing "Gen6"; the input records
\* with such keys have no record in the output, and every other input
\* record has exactly one.
C16_PreFilter ==
    \A d \in Processed :
        /\ \A r \in Elements(processedMapping[d]) : ~Redundant(d, r.key)
        /\ \A i \in DOMAIN rawMapping[d] :
              Cardinality({j \in DOMAIN processedMapping[d] :
                              processedMapping[d][j].filename = rawMapping[d][i].filename})
                  = IF Redundant(d, rawMapping[d][i].key) THEN 0 ELSE 1

\* Group 666 with an (All) key and a Gen6 key removed and a canonical form kept
C16_Witness ==
    /\ 666 \in Processed
    /\ \E f \in Elements(rawMapping[666]) : includes(f.key, <<"(","A","l","l",")">>)
    /\ \E f \in Elements(rawMapping[666]) : includes(f.key, <<"G","e","n","6">>)
    /\ Canonicals(666) # {}

\* The first n characters of a name are decimal digits
StartsWithDigits(name, n) ==
    Len(name) >= n /\ \A i \in 1..n : name[i] \in {Digits[k] : k \in DOMAIN Digits}

\* The width at which a file name yields a dexID: 4, else 3, else 0
WidthOf(filename) ==
    IF StartsWithDigits(nameWithoutExt(filename), 4) THEN 4
    ELSE IF StartsWithDigits(nameWithoutExt(filename), 3) THEN 3
    ELSE 0

\* The places <<dexID, index>> of the entries in the groups of stage 1
GroupedEntries ==
    UNION {{<<d, i>> : i \in DOMAIN dexMapping[d]} : d \in DOMAIN dexMapping}

\* C17: a handled file whose name starts with four digits, or else with
\* three, has an entry with these digits' value as dexID and the rest of
\* the name without extension as key, "base" for an empty rest; any other
\* handled file has a warning with its filename and a reason and no entry;
\* the loop goes on to the last file.
C17_KeyExtraction ==
    /\ \A k \in 1..handled :
          LET filename == imageFiles[k]
              name     == nameWithoutExt(filename)
              width    == WidthOf(filename)
              entries  == {dexMapping[g[1]][g[2]] : g \in GroupedEntries}
          IN  IF width > 0
              THEN /\ \E e \in entries :
                         /\ e.filename = filename
                         /\ e.dexID = DigitsValue(SubSeq(name, 1, width))
                         /\ e.key = IF Len(name) = width THEN <<"b","a","s","e">>
                                    ELSE SubSeq(name, width + 1, Len(name))
                   /\ \A j \in DOMAIN warnings : warnings[j].filename # filename
              ELSE /\ \E j \in DOMAIN warnings :
                         /\ warnings[j].filename = filename
                         /\ warnings[j].reason = SubSeq(name, 1, IF Len(name) < 4 THEN Len(name) ELSE 4)
                   /\ \A e \in entries : e.filename # filename
    /\ pc = "done" => handled = Len(imageFiles)

\* A finished run in which a file was rejected and a later file was
\* accepted by its first three digits
C17_Witness ==
    /\ pc = "done"
    /\ \E j, k \in 1..handled :
          /\ j < k
          /\ WidthOf(imageFiles[j]) = 0
          /\ WidthOf(imageFiles[k]) = 3
    /\ \E k \in 1..handled : WidthOf(imageFiles[k]) = 4

\* C18: after any number of files, every accepted file has exactly one
\* entry over all groups, every entry is in the group of its dexID, a
\* rejected file has no entry, and stats.processed + stats.warnings is the
\* number of files handled.
C18_GroupingIsPartition ==
    /\ \A g \in GroupedEntries : dexMapping[g[1]][g[2]].dexID = g[1]
    /\ \A k \in 1..handled :
          Cardinality({g \in GroupedEntries : dexMapping[g[1]][g[2]].filename = imageFiles[k]})
              = IF WidthOf(imageFiles[k]) = 0 THEN 0 ELSE 1
    /\ \A g \in GroupedEntries :
          \E k \in 1..handled : dexMapping[g[1]][g[2]].filename = imageFiles[k]
    /\ extractStats.processed + extractStats.warnings = handled
    /\ extractStats.processed = Cardinality(GroupedEntries)
    /\ extractStats.warnings = Len(warnings)

\* Three files handled: two in one group, one rejected
C18_Witness ==
    /\ handled = 3
    /\ extractStats.warnings = 1
    /\ \E d \in DOMAIN dexMapping : Len(dexMapping[d]) = 2

\* The entries of data.species with a dexID, in the order of their enumeration
Encountered(dexID) ==
    LET of(e) == e.dexID = dexID
    IN  SelectSeq(species, of)

\* C19: in each list of the importer's output the entries without a numeric
\* order come first, in the order of their encounter, then the entries with
\* a numeric order in ascending order, entries of equal order in the order
\* of their encounter; stage 3 takes the name of the first entry as the
\* name of the dexID.
C19_ImporterOrder ==
    pc \in {"written", "loaded"} =>
        \A d \in DOMAIN rrFile :
            LET list  == rrFile[d]
                place == [e \in DOMAIN list |->
                             CHOOSE k \in DOMAIN species : species[k].ID = list[e].ID]
            IN  /\ Len(list) = Len(Encountered(d))
                /\ \A e \in DOMAIN list : species[place[e]].dexID = d
                /\ \A e, f \in DOMAIN list : e # f => list[e].ID # list[f].ID
                /\ \A e \in DOMAIN list : list[e].order.type \in {"null", "number"}
                /\ \A e, f \in DOMAIN list :
                      e < f =>
                        /\ list[f].order.type = "null" => list[e].order.type = "null"
                        /\ list[e].order.type = "number" /\ list[f].order.type = "number"
                              => list[e].order.value <= list[f].order.value
                        /\ list[e].order = list[f].order => place[e] < place[f]
                /\ pc = "loaded" => /\ d \in DOMAIN pokemonNames
                                    /\ pokemonNames[d] = list[1].name

\* A loaded list of three entries: one without order that was met after a
\* numbered one, and two with the same number
C19_Witness ==
    /\ pc = "loaded"
    /\ \E d \in DOMAIN rrFile :
          /\ Len(rrFile[d]) = 3
          /\ species[1].order.type = "number"
          /\ \E k \in DOMAIN species : species[k].order.type = "undefined"
          /\ \E e \in 1..2 : /\ rrFile[d][e].order.type = "number"
                             /\ rrFile[d][e].order = rrFile[d][e + 1].order

\* A name without the digits it ends with
StemOf(name) == SubSeq(name, 1, Len(name) - TrailingDigits(name))

\* The name is that of a versioned sibling: it ends with -v and a number
IsVersionedName(name) == TrailingDigits(name) > 0 /\ EndsWith(StemOf(name), <<"-","v">>)

\* C20: of two versioned siblings of a group whose names differ in the
\* appended number only, the one whose key ends with the greater number
\* does not have the lower number appended.
C20_VersionMonotone ==
    \A d \in Processed : \A r, q \in Elements(processedMapping[d]) :
        /\ ~r.isCanonical /\ ~q.isCanonical
        /\ IsVersionedName(r.name) /\ IsVersionedName(q.name)
        /\ StemOf(r.name) = StemOf(q.name)
        /\ TrailingVersion(r.key) > TrailingVersion(q.key)
        => TrailingVersion(r.name) >= TrailingVersion(q.name)

Usable == inputFile.exists /\ inputFile.valid

\* C21: when the input file of stage 3 does not exist or holds no JSON, the
\* process goes to its end with status 1 without processing anything, and
\* the output file is neither written nor changed; the output file is
\* written at most once, with the lists of all groups, and changes in no
\* other step.
C21_FatalInputWritesNothing ==
    /\ [](/\ writes <= 1
          /\ exitStatus = <<1>> => writes = 0
          /\ ~Usable => /\ pc \in {"start", "read", "exited"}
                        /\ pc = "exited" => exitStatus = <<1>>
                        /\ writes = 0
                        /\ processedMapping = EmptyObject
          /\ writes = 1 => /\ DOMAIN processedMapping = DOMAIN inputFile.content
                           /\ outputFile = processedMapping)
    /\ [][/\ ~Usable => pc' \in {"read", "exited"} /\ outputFile' = outputFile
          /\ ~Usable /\ pc = "read" => pc' = "exited"
          /\ outputFile' # outputFile =>
                /\ writes' = writes + 1
                /\ DOMAIN processedMapping = DOMAIN rawMapping]_vars

\* The process has ended with status 1 on a file that is no JSON, and the
\* output file of an earlier run is as it was
C21_Witness ==
    /\ pc = "exited"
    /\ exitStatus = <<1>>
    /\ inputFile = BrokenFile
    /\ outputFile = OldOutput

\* The classification buckets of a group, in the order gendered,
\* base-labeled, plain-no-middle, plain-with-middle, mega, mega-X, mega-Y,
\* other-prefixed
Buckets(dexID) ==
    LET parsed == ParsedInput(dexID)
    IN  <<femForms(parsed), baseForms(parsed), plainNoMiddleForms(parsed), plainForms(parsed),
          megaForms(dexID, parsed), megaXForms(parsed), megaYForms(parsed), otherForms(parsed)>>

\* C22: every parsed form of every group is in exactly one of the eight
\* classification buckets.
C22_BucketsPartition ==
    \A d \in Processed :
        \E buckets \in {Buckets(d)} :
            \A f \in Elements(ParsedInput(d)) :
                Cardinality({b \in DOMAIN buckets : f \in Elements(buckets[b])}) = 1

\* The name the -Female branch gives in a group
FemaleName(dexID) == BaseNameOf(dexID) \o <<"-","F","e","m","a","l","e">>

\* A form of the group carries the override of its dexID
OverridePresent(dexID) == \E f \in Elements(ParsedInput(dexID)) : CarriesOverride(dexID, f)

ListedPrefixes == {<<"m">>, <<"r">>, <<"a">>, <<"d">>, <<"s">>, <<"e">>, <<"b">>}

\* The suffix the regional rule gives the prefix r, or the generic rule
\* when the regional table does not list exactly one region
RegionalOrGeneric(dexID) ==
    IF dexID \in DOMAIN pokemonRegionalForms /\ Len(pokemonRegionalForms[dexID]) = 1
    THEN <<"-">> \o pokemonRegionalForms[dexID][1]
    ELSE <<"-","R">>

\* The suffix of a listed prefix: the one the special-case table lists for
\* the dexID, and outside the table the regional or generic one
ListedSuffix(dexID, prefix) ==
    CASE dexID = 201 /\ prefix = <<"m">> -> <<"-","M">>
      [] dexID = 201 /\ prefix = <<"r">> -> <<"-","R">>
      [] dexID = 386 /\ prefix = <<"a">> -> <<"-","A","t","t","a","c","k">>
      [] dexID = 386 /\ prefix = <<"d">> -> <<"-","D","e","f","e","n","s","e">>
      [] dexID = 386 /\ prefix = <<"s">> -> <<"-","S","p","e","e","d">>
      [] dexID = 670 /\ prefix = <<"e">> -> <<"-","E","t","e","r","n","a","l">>
      [] dexID = 670 /\ prefix = <<"b">> -> <<"-","B","l","u","e","-","F","l","o","w","e","r">>
      [] prefix = <<"r">> -> RegionalOrGeneric(dexID)
      [] OTHER -> <<"-", toUpperChar(prefix[1])>> \o Tail(prefix)

\* C24: a non-canonical form with a prefix of the special-case table is
\* named base name + the suffix listed for its dexID when the dexID is in
\* the scope of the entry, whatever the regional table holds, and else base
\* name + the suffix of the regional rule (prefix r) or of the generic rule.
C24_SpecialCasePrecedence ==
    \A d \in Processed : \A r \in Elements(processedMapping[d]) :
        /\ ~r.isCanonical
        /\ PrefixOf(r.key) \in ListedPrefixes
        /\ TrivialMiddle(r.key)
        => r.name = BaseNameOf(d) \o ListedSuffix(d, PrefixOf(r.key))

\* C25: calls of processDexGroup on the same forms in any two orders give
\* every form the same name and the same canonical flag.
C25_OrderIndependent ==
    \A i, j \in DOMAIN callLog :
        \A a \in Elements(callLog[i].forms) : \A b \in Elements(callLog[j].forms) :
            callLog[i].dexID = callLog[j].dexID /\ a.filename = b.filename
            => a.name = b.name /\ a.isCanonical = b.isCanonical

\* C26: every record that is not canonical is named base name + a suffix
\* that starts with "-" and is longer than the dash; a record that carries
\* the bare base name is canonical.
C26_NonCanonicalHasSuffix ==
    \A d \in Processed : \A r \in Elements(processedMapping[d]) :
        /\ ~r.isCanonical => /\ startsWith(r.name, BaseNameOf(d) \o <<"-">>)
                             /\ Len(r.name) > Len(BaseNameOf(d)) + 1
        /\ r.name = BaseNameOf(d) => r.isCanonical

\* C27: a call of processDexGroup on the list an earlier call returned, with
\* the same dexID and reference name, returns that list: the same records
\* with the same names and flags, in the same order.
C27_FixedPoint ==
    \A k \in DOMAIN callLog :
        callLog[k].from > 0 =>
            /\ callLog[k].dexID = callLog[callLog[k].from].dexID
            /\ callLog[k].forms = callLog[callLog[k].from].forms

\* A list of two forms of equal version was returned in another order than
\* it was passed, and fed back
C27_Witness ==
    \E k \in DOMAIN callLog :
        /\ callLog[k].from > 0
        /\ Len(callLog[k].forms) = 2
        /\ callLog[k].input # callLog[callLog[k].from].input
        /\ \E r \in Elements(callLog[k].forms) : r.isCanonical
        /\ versionNumber(parseKey(callLog[k].forms[1].key).version, <<"0">>)
              = versionNumber(parseKey(callLog[k].forms[2].key).version, <<"0">>)
        /\ PrefixOf(callLog[k].forms[1].key) = PrefixOf(callLog[k].forms[2].key)

\* The sheets the splitter has cut: handled, and readable
Cut == {k \in 1..splitDone : allImages[k].readable}

\* The sprites of sheet k are in the four output folders under the name
HasSprites(k, name) ==
    \A f \in OutputFolders :
        /\ <<f, name>> \in DOMAIN splitOutput
        /\ splitOutput[<<f, name>>] = pathOf(allImages[k])

\* No sheet cut before sheet k has the basename of sheet k
FirstOfBasename(k) == \A j \in Cut : j < k => allImages[j].basename # allImages[k].basename

\* The basename of sheet k is the name a sheet cut before it was renamed to
TakenByRename(k) ==
    \E i \in DOMAIN splitStats.duplicates : \E j \in Cut :
        /\ j < k
        /\ splitStats.duplicates[i].path = pathOf(allImages[j])
        /\ splitStats.duplicates[i].unique = allImages[k].basename

\* The sprites of every sheet cut are in the output under a name of its own
\* that the registry holds
NoSheetOverwritten ==
    /\ \A k \in Cut : \E name \in DOMAIN filenameRegistry : HasSprites(k, name)
    /\ Cardinality(DOMAIN splitOutput) = 4 * Cardinality(Cut)
    /\ \A key \in DOMAIN splitOutput : key[2] \in DOMAIN filenameRegistry

\* C28 as stated: the names returned are pairwise distinct and recorded, no
\* sheet overwrites the sprites of an earlier one, and the first sheet with
\* a given basename keeps that basename.
C28_FirstKeepsBasename ==
    /\ NoSheetOverwritten
    /\ \A k \in Cut : FirstOfBasename(k) => HasSprites(k, allImages[k].basename)

\* C28 amended: the names returned are pairwise distinct and recorded and
\* no sheet overwrites the sprites of an earlier one; the first sheet with
\* a given basename keeps that basename unless an earlier sheet was renamed
\* to it, and every other sheet is renamed.
C28_UniqueFilenames ==
    /\ NoSheetOverwritten
    /\ \A k \in Cut :
          IF FirstOfBasename(k) /\ ~TakenByRename(k)
          THEN HasSprites(k, allImages[k].basename)
          ELSE ~HasSprites(k, allImages[k].basename)

\* Three sheets cut: the second was renamed to the basename of the third,
\* which is the first of its basename
C28_Witness ==
    /\ pc = "done"
    /\ Cardinality(Cut) = 3
    /\ FirstOfBasename(3)
    /\ TakenByRename(3)
    /\ Len(splitStats.duplicates) = 2

\* The number of times a list holds a value
Occurrences(list, value) == Cardinality({i \in DOMAIN list : list[i] = value})

\* No sprite file of the output directory is removed or changed
SpritesKept == \A k \in DOMAIN spriteDir : k \in DOMAIN spriteDir' /\ spriteDir'[k] = spriteDir[k]

\* A call of splitSpriteSheet on a sheet sharp can read has every type
\* either written and recorded as split, or found and recorded as skipped;
\* on any other sheet it writes and records nothing; no other step writes
WrittenOrSkipped ==
    IF pc = "fill" /\ gapDone' = gapDone + 1
    THEN LET call  == fillCalls[gapDone + 1]
             paths == outputPaths(call.dexID, call.key)
         IN  IF ~readableAt(call.inputPath)
             THEN spriteDir' = spriteDir /\ processed' = processed
             ELSE
                 /\ Len(processed'.split) + Len(processed'.skipped)
                        = Len(processed.split) + Len(processed.skipped) + Len(paths)
                 /\ \A i \in DOMAIN paths :
                      \/ /\ paths[i] \notin DOMAIN spriteDir
                         /\ paths[i] \in DOMAIN spriteDir'
                         /\ spriteDir'[paths[i]] = call.inputPath
                         /\ Occurrences(processed'.split, paths[i])
                                = Occurrences(processed.split, paths[i]) + 1
                         /\ Occurrences(processed'.skipped, paths[i])
                                = Occurrences(processed.skipped, paths[i])
                      \/ /\ paths[i] \in DOMAIN spriteDir
                         /\ Occurrences(processed'.skipped, paths[i])
                                = Occurrences(processed.skipped, paths[i]) + 1
                         /\ Occurrences(processed'.split, paths[i])
                                = Occurrences(processed.split, paths[i])
    ELSE DOMAIN spriteDir' = DOMAIN spriteDir

\* Sharp can read the sheet of every call of this run
RunSucceeds == \A i \in DOMAIN fillCalls : readableAt(fillCalls[i].inputPath)

\* C29: splitSpriteSheet of the gap filler never overwrites a sprite file.
\* No step removes or changes a file of the output directory; a call on a
\* sheet sharp can read handles each of the four types in one of two ways,
\* writing a file that was not there and adding it to processed.split, or
\* leaving the file that is there and adding it to processed.skipped; and a
\* run that follows a run without errors, over the same gaps, writes nothing.
C29_NeverOverwrites ==
    /\ [][SpritesKept /\ WrittenOrSkipped]_vars
    /\ []((fillRun >= 2 /\ RunSucceeds) => processed.split = <<>>)

\* C29 witness: the second run has ended, with skipped files; of one sprite
\* the output directory holds a file that was there before the first run and
\* a file the gap filler has written
C29_Witness ==
    /\ fillRun = 2
    /\ pc = "filled"
    /\ RunSucceeds
    /\ processed.skipped # <<>>
    /\ \E k \in DOMAIN spriteDir : \E q \in DOMAIN spriteDir :
           k[2] = q[2] /\ spriteDir[k] = OldSprite /\ spriteDir[q] # OldSprite

\* The calls made for a gap whose front sprite is a file the call has written
FilledGaps ==
    {i \in DOMAIN fillCalls :
        /\ fillCalls[i].gap # "unown"
        /\ <<"front", outputFilename(fillCalls[i].dexID, fillCalls[i].key)>> \in DOMAIN spriteDir
        /\ spriteDir[<<"front", outputFilename(fillCalls[i].dexID, fillCalls[i].key)>>]
               = fillCalls[i].inputPath}

\* The test by which identifyGaps takes a gap for filled
Accepts(call, name) ==
    CASE call.gap = "base" -> isBaseFormName(name)
      [] call.gap = "mega" -> includes(name, <<"-","M","e","g","a">>)
      [] call.gap = "regional" -> includes(name, <<"-">> \o call.region)

\* The pipeline has run on the output directory after the gap filler
Rebuilt == fillRun > 0 /\ pc = "done" /\ exitStatus = <<0>>

\* The key extractor reads the file of a call as the dexID and the key of the call
ReadBack(call) ==
    LET entry == entryOf(outputFilename(call.dexID, call.key))
    IN  /\ entry.dexID = call.dexID
        /\ entry.key = IF call.key = <<>> THEN <<"b","a","s","e">> ELSE call.key

\* The engine has given the file of a call a name that fills the gap
NamedAsGap(call) ==
    /\ call.dexID \in DOMAIN outputFile
    /\ \E j \in DOMAIN outputFile[call.dexID] :
          /\ outputFile[call.dexID][j].filename = outputFilename(call.dexID, call.key)
          /\ Accepts(call, outputFile[call.dexID][j].name)

\* C30: the keys of the gap filler are keys of the engine. When the
\* pipeline is run again after the gap filler, every file written for a gap
\* is read back as the dexID and the key of the gap (the empty key as
\* "base"), and its name in the processed mapping passes the test by which
\* the gap was identified: it includes "-Mega" for a mega gap, the region
\* after a dash for a regional gap, and none of "-Mega", "-Alola", "-Galar",
\* "-Hisui" for a base gap.
C30_KeyVocabulary ==
    Rebuilt => \A i \in FilledGaps : ReadBack(fillCalls[i]) /\ NamedAsGap(fillCalls[i])

====
